---------------------------- MODULE Spec2Model ----------------------------
(***************************************************************************)
(* A model of ecs-toolkit's deploy command: the task definition builder    *)
(* (pkg/task_definitions.go), the task rollout (pkg/tasks.go), the service *)
(* rollout (DeployServices / deployService / watchService) and the stage   *)
(* sequencing of cmd/deploy.go.                                            *)
(*                                                                         *)
(* Strings that the code takes apart (image references, tags) are          *)
(* sequences of one-character strings; all other strings are atoms.        *)
(***************************************************************************)
EXTENDS Integers, Sequences, FiniteSets, TLC

\* ------------------------------------------------------------------------
\* Bounds of the model
\* ------------------------------------------------------------------------

\* Largest number of container definitions in a task definition revision.
MaxContainers == 2

\* Largest number of units (task groups and services) a configuration lists.
MaxUnits == 3

\* Largest number of task instances a RunTask response carries.
MaxInst == 1

\* Largest number of containers of an observed task.
MaxTaskContainers == 2

\* Largest number of deployments of an observed service.
MaxDeployments == 2

\* Largest number of tasks a RunTask answer carries in a deployTask call
\* taken on its own.
MaxWatched == 2

\* Largest number of rounds of a watchService call taken on its own.
MaxRounds == 2

\* ------------------------------------------------------------------------
\* Strings
\* ------------------------------------------------------------------------

Nil == "nil"

\* strings.Index(s, sub): position of the first occurrence of sub in s,
\* 0 when there is none (Go's -1), 1 when sub is empty.
StringsIndex(s, sub) ==
  LET hits == {i \in 1..(Len(s) + 1) :
                 /\ i + Len(sub) - 1 <= Len(s)
                 /\ SubSeq(s, i, i + Len(sub) - 1) = sub}
  IN IF hits = {} THEN 0 ELSE CHOOSE i \in hits : \A j \in hits : i <= j

\* strings.Replace(s, old, new, 1): the first occurrence of old replaced.
StringsReplace1(s, old, new) ==
  LET i == StringsIndex(s, old)
  IN IF i = 0 THEN s
     ELSE SubSeq(s, 1, i - 1) \o new \o SubSeq(s, i + Len(old), Len(s))

\* Position of the last occurrence of the character c in s, 0 when none.
LastIndexOf(s, c) ==
  LET hits == {i \in 1..Len(s) : s[i] = c}
  IN IF hits = {} THEN 0 ELSE CHOOSE i \in hits : \A j \in hits : j <= i

\* ------------------------------------------------------------------------
\* Image references: dockerparser.Parse and Reference.Tag
\* ------------------------------------------------------------------------

\* The tag dockerparser gives a reference that carries none.
DefaultTag == <<"l", "a", "t", "e", "s", "t">>

\* The position of the ":" that starts the tag: the last ":" of the
\* reference when it comes after the last "/", else 0.
TagSeparator(ref) ==
  LET colon == LastIndexOf(ref, ":")
  IN IF colon > LastIndexOf(ref, "/") THEN colon ELSE 0

\* The reference without its tag: registry and repository.
RefName(ref) ==
  IF TagSeparator(ref) = 0 THEN ref ELSE SubSeq(ref, 1, TagSeparator(ref) - 1)

\* dockerparser.Parse succeeds: [registry/]repository[:tag] with non-empty
\* path components of name characters and, when present, a non-empty tag.
ParseOk(ref) ==
  LET name == RefName(ref)
      sep == TagSeparator(ref)
  IN /\ Len(name) >= 1
     /\ name[1] # "/"
     /\ name[Len(name)] # "/"
     /\ \A i \in 1..Len(name) : name[i] # ":"
     /\ \A i \in 1..(Len(name) - 1) : ~(name[i] = "/" /\ name[i + 1] = "/")
     /\ sep # 0 => sep < Len(ref)

\* parsedImage.Tag(): the explicit tag, or the default tag.
ParsedTag(ref) ==
  IF TagSeparator(ref) = 0 THEN DefaultTag
  ELSE SubSeq(ref, TagSeparator(ref) + 1, Len(ref))

\* ------------------------------------------------------------------------
\* The task definition builder: GenerateTaskDefinition
\* ------------------------------------------------------------------------

\* The top-level fields of a task definition that the builder copies into
\* the registration request.
TopLevelFields ==
  {"Family", "Cpu", "EphemeralStorage", "ExecutionRoleArn",
   "InferenceAccelerators", "IpcMode", "Memory", "NetworkMode", "PidMode",
   "PlacementConstraints", "ProxyConfiguration", "RequiresCompatibilities",
   "RuntimePlatform", "TaskRoleArn", "Volumes"}

\* The registration request before any image is rewritten: every top-level
\* field and the container definitions of the described revision; the tags
\* only when there is at least one (a nil slice is the empty sequence).
CopyTaskDefinition(described) ==
  [top |-> [f \in TopLevelFields |-> described.taskDefinition.top[f]],
   containers |-> described.taskDefinition.containers,
   tags |-> IF Len(described.tags) >= 1 THEN described.tags ELSE << >>]

\* As IsUpdateable, were the lookup in the container list left out.
IsUpdateableAlways(updateable, containerName) == TRUE

\* input.UpdateableContainers[containerName]: a missing key reads false.
IsUpdateable(updateable, containerName) == containerName \in updateable

\* The image with the first occurrence of the old tag's text replaced.
NewContainerImage(oldContainerImage, oldContainerImageTag, newContainerImageTag) ==
  StringsReplace1(oldContainerImage, oldContainerImageTag, newContainerImageTag)

\* As SameImageTag, were the comparison of the tags left out.
SameImageTagNever(oldContainerImageTag, newContainerImageTag) == FALSE

\* The old and new image tags are the same: the container is left alone.
SameImageTag(oldContainerImageTag, newContainerImageTag) ==
  oldContainerImageTag = newContainerImageTag

\* The loop over the request's container definitions, from index i on.
\* fatal: an updatable container's image did not parse (containerSublogger.Fatalf).
RECURSIVE UpdateContainerImages(_, _, _, _, _)
UpdateContainerImages(containers, i, updated, updateable, imageTag) ==
  IF i > Len(containers)
  THEN [containers |-> containers, updated |-> updated, fatal |-> FALSE]
  ELSE LET oldContainerImage == containers[i].image
           oldContainerImageTag == ParsedTag(oldContainerImage)
       IN IF ~IsUpdateable(updateable, containers[i].name)
          THEN UpdateContainerImages(containers, i + 1, updated, updateable, imageTag)
          ELSE IF ~ParseOk(oldContainerImage)
          THEN [containers |-> containers, updated |-> updated, fatal |-> TRUE]
          ELSE IF SameImageTag(oldContainerImageTag, imageTag)
          THEN UpdateContainerImages(containers, i + 1, updated, updateable, imageTag)
          ELSE UpdateContainerImages(
                 [containers EXCEPT ![i].image =
                    NewContainerImage(oldContainerImage, oldContainerImageTag, imageTag)],
                 i + 1, TRUE, updateable, imageTag)

\* The request GenerateTaskDefinition has built when its loop ends, with
\* whether any image was rewritten and whether the loop hit a fatal error.
BuildRequest(described, updateable, imageTag) ==
  LET copied == CopyTaskDefinition(described)
      looped == UpdateContainerImages(copied.containers, 1, FALSE, updateable, imageTag)
  IN [request |-> [copied EXCEPT !.containers = looped.containers],
      updated |-> looped.updated,
      fatal |-> looped.fatal]

\* The revision the control plane registers for a request.
RegisteredTaskDefinition(request, revision) ==
  [top |-> request.top, containers |-> request.containers, revision |-> revision + 1]

\* -- inputs of the builder ------------------------------------------------

ContainerNames == {"web", "proxy"}

OtherFields == {"o1", "o2"}

\* r/a:x, r/a:y, x/a:x (the tag's text also in the registry), a (no tag),
\* a: (does not parse).
Images ==
  {<<"r", "/", "a", ":", "x">>,
   <<"r", "/", "a", ":", "y">>,
   <<"x", "/", "a", ":", "x">>,
   <<"a">>,
   <<"a", ":">>}

ImageTags == {<<"x">>, <<"y">>, DefaultTag}

ContainerDefinitions == [name : ContainerNames, image : Images, other : OtherFields]

RECURSIVE SeqsUpTo(_, _)
SeqsUpTo(S, n) ==
  IF n = 0 THEN {<< >>}
  ELSE LET shorter == SeqsUpTo(S, n - 1)
       IN shorter \cup {Append(q, x) : q \in {r \in shorter : Len(r) = n - 1}, x \in S}

\* Every top-level field holds a value of its own.
TopLevelValues == [f \in TopLevelFields |-> <<f, "value">>]

DescribeOutputs ==
  [taskDefinition :
     [top : {TopLevelValues},
      containers : SeqsUpTo(ContainerDefinitions, MaxContainers) \ {<< >>},
      revision : {1}],
   tags : {<< >>, <<"t1">>}]

\* The input's image tag and updatable containers; the revision its
\* TaskDefinition names is the one the control plane describes.
GenerateTaskDefinitionInputs ==
  [ImageTag : ImageTags,
   UpdateableContainers : SUBSET ContainerNames \ {{}}]

\* ------------------------------------------------------------------------
\* State
\* ------------------------------------------------------------------------

VARIABLES
  options,              \* deployOptions: the stage-skip flags
  config,               \* Config: how many task groups and services it lists
  pc,                   \* where deployOptions.run is, or how the process ended
  called,               \* the stages whose DeployTasks / DeployServices run has called
  workers,              \* the worker goroutine of every unit
  failedCount,          \* DeployTasks' failedCount
  skippedCount,         \* DeployTasks' skippedCount
  serviceDeployErrors,  \* DeployServices' channel: its length, capacity, and whether closed
  report,               \* the report each stage logged
  gtd,                  \* one call of GenerateTaskDefinition taken on its own
  taskCall,             \* one call of deployTask taken on its own
  serviceCall,          \* one call of deployService taken on its own
  watchCall             \* one call of watchService taken on its own

vars == <<options, config, pc, called, workers, failedCount, skippedCount,
          serviceDeployErrors, report, gtd, taskCall, serviceCall, watchCall>>

Stages == {"pre", "services", "post"}

TaskStages == {"pre", "post"}

\* A unit is a task group of a task stage or a service: <<stage, index>>.
AllUnits == Stages \X (1..MaxUnits)

Units(stage) == {u \in AllUnits : u[1] = stage /\ u[2] <= config[stage]}

\* No report logged yet.
NoReport == [logged |-> FALSE, total |-> 0, successful |-> 0, skipped |-> 0, failed |-> 0]

\* A worker goroutine: where it is, the outcome of its unit, the value of
\* failedCount it has read, of a task group's watchers how many have
\* not returned (deployTask's wg) and how many errors they have sent
\* (the length of taskWatchErrors), and of a service worker the error that
\* deployService returned: "not found" for its own error on an answer with
\* no service, "wait" for the waiter's error, "call" for the error of the
\* DescribeServices or the UpdateService call.
IdleWorker ==
  [pc |-> "idle", status |-> "pending", tmp |-> 0, watching |-> 0, watchErrors |-> 0,
   cause |-> "none"]

\* The worker whose builder call ended the process with logger.Fatalf.
FatalWorker == [IdleWorker EXCEPT !.pc = "fatal", !.status = "failed"]

\* The process is running: neither returned from run nor exited by a Fatal.
ExitStates == {"returned", "fatal_setup", "fatal_stage", "fatal_builder", "panicked"}

Alive == pc \notin ExitStates

\* The exit status of the process: log.Fatal exits with status 1, a
\* goroutine's panic with status 2.
ExitStatus == IF pc = "returned" THEN 0 ELSE IF pc = "panicked" THEN 2 ELSE 1

\* The stage run executes after the given one.
NextStage(stage) ==
  IF stage = "pre" THEN "services" ELSE IF stage = "services" THEN "post" ELSE "returned"

Waiting(stage) ==
  IF stage = "pre" THEN "wait_pre"
  ELSE IF stage = "services" THEN "wait_services" ELSE "wait_post"

\* As WaitGroupDone, were the wait group given a count of one.
WaitGroupDoneAny(stage) == \E u \in Units(stage) : workers[u].pc = "done"

\* wg.Wait() returns: every worker of the stage has called wg.Done.
WaitGroupDone(stage) == \A u \in Units(stage) : workers[u].pc = "done"

\* The builder call as the workers make it.
WorkerImageTag == <<"y">>

WorkerUpdateable == {"web"}

\* What DescribeTaskDefinition may return to a worker: a revision whose
\* image has another tag, one already at the tag, one that does not parse.
WorkerDescribeOutputs ==
  {[taskDefinition |->
      [top |-> TopLevelValues,
       containers |-> <<[name |-> "web", image |-> img, other |-> "o1"]>>,
       revision |-> 1],
    tags |-> << >>] :
   img \in {<<"r", "/", "a", ":", "x">>, <<"r", "/", "a", ":", "y">>, <<"a", ":">>}}

GtdIdle == [pc |-> "idle"]

\* No call of deployTask, deployService or watchService taken on its own.
NoCall == [pc |-> "idle"]

\* serviceDeployErrors before DeployServices has made it.
NoChannel == [len |-> 0, cap |-> 0, closed |-> FALSE]

\* make(chan error, numberOfServices): an open channel with no error
\* buffered and room for one error per service.
ServiceDeployErrorsChannel(numberOfServices) ==
  [len |-> 0, cap |-> numberOfServices, closed |-> FALSE]

\* The configurations: the number of task groups and of services.
Configs ==
  {c \in [pre : 0..MaxUnits, services : 0..MaxUnits, post : 0..MaxUnits] :
     c.pre + c.services + c.post <= MaxUnits}

Init ==
  /\ options \in [skipTasks : BOOLEAN, skipTasksPre : BOOLEAN, skipTasksPost : BOOLEAN]
  /\ config \in Configs
  /\ pc = "setup"
  /\ called = {}
  /\ workers = [u \in AllUnits |-> IdleWorker]
  /\ failedCount = 0
  /\ skippedCount = 0
  /\ serviceDeployErrors = NoChannel
  /\ report = [s \in Stages |-> NoReport]
  /\ gtd = GtdIdle
  /\ taskCall = NoCall
  /\ serviceCall = NoCall
  /\ watchCall = NoCall

\* ------------------------------------------------------------------------
\* deployOptions.run and the stage coordinators
\* ------------------------------------------------------------------------

\* run: config.LoadDefaultConfig and the client; an error is fatal.
Setup ==
  /\ pc = "setup"
  /\ \E ok \in BOOLEAN : pc' = IF ok THEN "pre" ELSE "fatal_setup"
  /\ UNCHANGED <<options, config, called, workers, failedCount, skippedCount,
                 serviceDeployErrors, report, gtd, taskCall, serviceCall, watchCall>>

\* As AfterStage, were the stage's error ignored.
AfterStageIgnoringError(stage, failed) == NextStage(stage)

\* run after a stage has returned: on its error (a unit failed) log.Fatal
\* ends the process, else run goes on to the next stage.
AfterStage(stage, failed) ==
  IF failed > 0 THEN "fatal_stage" ELSE NextStage(stage)

\* As StageSkipped, were only --skip-tasks looked at.
StageSkippedBySkipTasksOnly(stage) == options.skipTasks

\* run skips the task stage for its flags.
StageSkipped(stage) ==
  \/ options.skipTasks
  \/ stage = "pre" /\ options.skipTasksPre
  \/ stage = "post" /\ options.skipTasksPost

\* run reaches a task stage: skipped by the flags, or DeployTasks is called,
\* which returns nil at once when no task is configured and else starts one
\* worker per task group.
DeployTasksStart(stage) ==
  /\ pc = stage
  /\ called' = IF StageSkipped(stage) THEN called ELSE called \cup {stage}
  /\ IF StageSkipped(stage) \/ config[stage] = 0
     THEN /\ pc' = NextStage(stage)
          /\ UNCHANGED <<workers, failedCount, skippedCount>>
     ELSE /\ pc' = Waiting(stage)
          /\ failedCount' = 0
          /\ skippedCount' = 0
          /\ workers' = [u \in AllUnits |->
                           IF u \in Units(stage)
                           THEN [workers[u] EXCEPT !.pc = "describe"]
                           ELSE workers[u]]
  /\ UNCHANGED <<options, config, serviceDeployErrors, report, gtd, taskCall, serviceCall, watchCall>>

\* As TasksReport, were the failed and skipped task groups not subtracted.
TasksReportAllSuccessful(numberOfTasks, failed, skipped) ==
  [logged |-> TRUE,
   total |-> numberOfTasks,
   successful |-> numberOfTasks,
   skipped |-> skipped,
   failed |-> failed]

\* The report DeployTasks logs after wg.Wait().
TasksReport(numberOfTasks, failed, skipped) ==
  [logged |-> TRUE,
   total |-> numberOfTasks,
   successful |-> numberOfTasks - (failed + skipped),
   skipped |-> skipped,
   failed |-> failed]

\* DeployTasks after wg.Wait(): the report, and an error when a task group
\* failed, on which run exits with log.Fatal.
DeployTasksReturn(stage) ==
  /\ pc = Waiting(stage)
  /\ WaitGroupDone(stage)
  /\ report' = [report EXCEPT ![stage] = TasksReport(config[stage], failedCount, skippedCount)]
  /\ pc' = AfterStage(stage, failedCount)
  /\ UNCHANGED <<options, config, called, workers, failedCount, skippedCount,
                 serviceDeployErrors, gtd, taskCall, serviceCall, watchCall>>

\* As DeployServicesStart, were the number of services not looked at.
DeployServicesStartWithoutEmptyCheck ==
  /\ pc = "services"
  /\ called' = called \cup {"services"}
  /\ pc' = Waiting("services")
  /\ serviceDeployErrors' = ServiceDeployErrorsChannel(config["services"])
  /\ workers' = [u \in AllUnits |->
                   IF u \in Units("services")
                   THEN [workers[u] EXCEPT !.pc = "describeService"]
                   ELSE workers[u]]
  /\ UNCHANGED <<options, config, failedCount, skippedCount, report, gtd,
                 taskCall, serviceCall, watchCall>>

\* run calls DeployServices: nil at once when no service is configured,
\* else the error channel and one worker per service.
DeployServicesStart ==
  /\ pc = "services"
  /\ called' = called \cup {"services"}
  /\ IF config["services"] = 0
     THEN /\ pc' = NextStage("services")
          /\ UNCHANGED <<workers, serviceDeployErrors>>
     ELSE /\ pc' = Waiting("services")
          /\ serviceDeployErrors' = ServiceDeployErrorsChannel(config["services"])
          /\ workers' = [u \in AllUnits |->
                           IF u \in Units("services")
                           THEN [workers[u] EXCEPT !.pc = "describeService"]
                           ELSE workers[u]]
  /\ UNCHANGED <<options, config, failedCount, skippedCount, report, gtd, taskCall, serviceCall, watchCall>>

\* As ServicesReport, were the errors on the channel not counted.
ServicesReportAllCompleted(numberOfServices, errors) ==
  [logged |-> TRUE,
   total |-> numberOfServices,
   successful |-> numberOfServices,
   skipped |-> 0,
   failed |-> 0]

\* The report DeployServices logs: it has no skipped count.
ServicesReport(numberOfServices, errors) ==
  [logged |-> TRUE,
   total |-> numberOfServices,
   successful |-> numberOfServices - errors,
   skipped |-> 0,
   failed |-> errors]

\* DeployServices after wg.Wait(): it closes the channel, and the counts
\* of its report are the channel's length.
DeployServicesReturn ==
  /\ pc = Waiting("services")
  /\ WaitGroupDone("services")
  /\ serviceDeployErrors' = [serviceDeployErrors EXCEPT !.closed = TRUE]
  /\ report' = [report EXCEPT !["services"] =
                  ServicesReport(config["services"], serviceDeployErrors.len)]
  /\ pc' = AfterStage("services", serviceDeployErrors.len)
  /\ UNCHANGED <<options, config, called, workers, failedCount, skippedCount,
                 gtd, taskCall, serviceCall, watchCall>>

\* ------------------------------------------------------------------------
\* The workers: GenerateTaskDefinition as both kinds of worker call it
\* ------------------------------------------------------------------------

\* What a worker does after the builder: RunTask or UpdateService.
AfterBuild(u) == IF u[1] = "services" THEN "update" ELSE "run"

\* GenerateTaskDefinition up to its decision: DescribeTaskDefinition, the
\* copy and the loop over the containers.  A describe error and an image
\* that does not parse end the process (logger.Fatalf); with no image
\* rewritten it returns (nil, false), else it goes on to register.
BuilderDescribe(u) ==
  /\ Alive
  /\ workers[u].pc = "describe"
  /\ \E ok \in BOOLEAN, described \in WorkerDescribeOutputs :
       IF ~ok
       THEN pc' = "fatal_builder" /\ workers' = [workers EXCEPT ![u] = FatalWorker]
       ELSE LET built == BuildRequest(described, WorkerUpdateable, WorkerImageTag)
            IN IF built.fatal
               THEN pc' = "fatal_builder" /\ workers' = [workers EXCEPT ![u] = FatalWorker]
               ELSE /\ workers' = [workers EXCEPT ![u].pc =
                                     IF built.updated THEN "register" ELSE AfterBuild(u)]
                    /\ UNCHANGED pc
  /\ UNCHANGED <<options, config, called, failedCount, skippedCount,
                 serviceDeployErrors, report, gtd, taskCall, serviceCall, watchCall>>

\* GenerateTaskDefinition's RegisterTaskDefinition call: an error ends the
\* process (logger.Fatalf), else the new revision is returned with true.
BuilderRegister(u) ==
  /\ Alive
  /\ workers[u].pc = "register"
  /\ \E ok \in BOOLEAN :
       IF ok
       THEN workers' = [workers EXCEPT ![u].pc = AfterBuild(u)] /\ UNCHANGED pc
       ELSE pc' = "fatal_builder" /\ workers' = [workers EXCEPT ![u] = FatalWorker]
  /\ UNCHANGED <<options, config, called, failedCount, skippedCount,
                 serviceDeployErrors, report, gtd, taskCall, serviceCall, watchCall>>

\* ------------------------------------------------------------------------
\* The task workers: deployTask, watchTask and the counting in DeployTasks
\* ------------------------------------------------------------------------

\* A container's ExitCode is a pointer: << >> is nil, <<c>> the code c.
ExitCodes == {<< >>, <<0>>, <<1>>}

\* What one DescribeTasks call of watchTask may observe.
ObservedTasks ==
  [lastStatus : {"RUNNING", "STOPPED"},
   exitCodes : SeqsUpTo(ExitCodes, MaxTaskContainers)]

TaskObservations ==
  [err : {TRUE}, tasks : {<< >>}] \cup
  [err : {FALSE}, tasks : {<< >>} \cup {<<t>> : t \in ObservedTasks}]

\* The observations the watchers of a deploy run are given: an error, no
\* task, a running task, a task stopped with exit code 0 and one with 1.
WorkerTaskObservations ==
  {[err |-> TRUE, tasks |-> << >>],
   [err |-> FALSE, tasks |-> << >>],
   [err |-> FALSE, tasks |-> <<[lastStatus |-> "RUNNING", exitCodes |-> <<<< >>>>]>>],
   [err |-> FALSE, tasks |-> <<[lastStatus |-> "STOPPED", exitCodes |-> <<<<0>>>>]>>],
   [err |-> FALSE, tasks |-> <<[lastStatus |-> "STOPPED", exitCodes |-> <<<<1>>>>]>>]}

\* As WatchTaskRound, were a task that has not stopped not waited for.
WatchTaskRoundWithoutTicker(obs) ==
  IF obs.err THEN "err"
  ELSE IF Len(obs.tasks) = 0 THEN "ok"
  ELSE LET task == obs.tasks[1]
           nonZeroExit == \E i \in 1..Len(task.exitCodes) :
                             task.exitCodes[i] # << >> /\ task.exitCodes[i][1] # 0
       IN IF nonZeroExit THEN "err" ELSE "ok"

\* One round of watchTask's loop: "err" it returns an error, "ok" it
\* returns nil, "poll" it waits for the ticker and goes round again.
WatchTaskRound(obs) ==
  IF obs.err THEN "err"
  ELSE IF Len(obs.tasks) = 0 THEN "ok"
  ELSE LET task == obs.tasks[1]
           nonZeroExit == \E i \in 1..Len(task.exitCodes) :
                             task.exitCodes[i] # << >> /\ task.exitCodes[i][1] # 0
       IN IF task.lastStatus = "STOPPED"
          THEN IF nonZeroExit THEN "err" ELSE "ok"
          ELSE "poll"

\* As TaskRun, were a rejected RunTask to skip the task group: deployTask
\* returns SkippedStatus with the error and the worker counts it.
TaskRunSkippingRejected(u) ==
  /\ Alive
  /\ workers[u].pc = "run"
  /\ \E ok \in BOOLEAN, numberOfTasks \in 0..MaxInst :
       /\ workers' = [workers EXCEPT ![u] =
                        IF ~ok
                        THEN [@ EXCEPT !.pc = "done", !.status = "skipped"]
                        ELSE [@ EXCEPT !.pc = "watch", !.watching = numberOfTasks]]
       /\ skippedCount' = IF ~ok THEN skippedCount + 1 ELSE skippedCount
  /\ UNCHANGED <<options, config, pc, called, failedCount,
                 serviceDeployErrors, report, gtd, taskCall, serviceCall, watchCall>>

\* deployTask's RunTask call: an error fails the task group, else one
\* watcher goroutine per returned task.
TaskRun(u) ==
  /\ Alive
  /\ workers[u].pc = "run"
  /\ \E ok \in BOOLEAN, numberOfTasks \in 0..MaxInst :
       workers' = [workers EXCEPT ![u] =
                     IF ~ok
                     THEN [@ EXCEPT !.pc = "read", !.status = "failed"]
                     ELSE [@ EXCEPT !.pc = "watch", !.watching = numberOfTasks]]
  /\ UNCHANGED <<options, config, pc, called, failedCount, skippedCount,
                 serviceDeployErrors, report, gtd, taskCall, serviceCall, watchCall>>

\* One round of one of the group's watcher goroutines that has not
\* returned; on an error it sends it on taskWatchErrors before wg.Done.
WatchTask(u) ==
  /\ Alive
  /\ workers[u].pc = "watch"
  /\ workers[u].watching > 0
  /\ \E obs \in WorkerTaskObservations :
       LET round == WatchTaskRound(obs)
       IN workers' = [workers EXCEPT ![u] =
                        IF round = "poll" THEN @
                        ELSE IF round = "ok" THEN [@ EXCEPT !.watching = @ - 1]
                        ELSE [@ EXCEPT !.watching = @ - 1, !.watchErrors = @ + 1]]
  /\ UNCHANGED <<options, config, pc, called, failedCount, skippedCount,
                 serviceDeployErrors, report, gtd, taskCall, serviceCall, watchCall>>

\* deployTask after its wg.Wait(): failed when a watcher sent an error,
\* else succeeded; a succeeded worker has nothing to count and is done.
TaskJoin(u) ==
  /\ Alive
  /\ workers[u].pc = "watch"
  /\ workers[u].watching = 0
  /\ workers' = [workers EXCEPT ![u] =
                   IF @.watchErrors > 0
                   THEN [@ EXCEPT !.pc = "read", !.status = "failed", !.watchErrors = 0]
                   ELSE [@ EXCEPT !.pc = "done", !.status = "succeeded"]]
  /\ UNCHANGED <<options, config, pc, called, failedCount, skippedCount,
                 serviceDeployErrors, report, gtd, taskCall, serviceCall, watchCall>>

\* The worker goroutine of DeployTasks counts a failed task group:
\* failedCount = failedCount + 1 is a read ...
TaskReadCount(u) ==
  /\ Alive
  /\ workers[u].pc = "read"
  /\ workers' = [workers EXCEPT ![u].pc = "write", ![u].tmp = failedCount]
  /\ UNCHANGED <<options, config, pc, called, failedCount, skippedCount,
                 serviceDeployErrors, report, gtd, taskCall, serviceCall, watchCall>>

\* ... and a write of the shared variable, with no lock held; wg.Done.
TaskWriteCount(u) ==
  /\ Alive
  /\ workers[u].pc = "write"
  /\ failedCount' = workers[u].tmp + 1
  /\ workers' = [workers EXCEPT ![u].pc = "done", ![u].tmp = 0]
  /\ UNCHANGED <<options, config, pc, called, skippedCount, serviceDeployErrors, report, gtd, taskCall, serviceCall, watchCall>>

\* ------------------------------------------------------------------------
\* The service workers: deployService, watchService and the error channel
\* ------------------------------------------------------------------------

\* What one DescribeServices call of watchService may observe.
Deployments == [status : {"PRIMARY", "ACTIVE"}, rolloutState : {"COMPLETED", "IN_PROGRESS"}]

ServiceObservations ==
  [err : {TRUE}, services : {<< >>}] \cup
  [err : {FALSE},
   services : {<< >>} \cup
              {<<[deployments |-> d]>> : d \in SeqsUpTo(Deployments, MaxDeployments)}]

\* The observations watchService is given in a deploy run: an error, no
\* service, a rollout in progress and a completed one.
WorkerServiceObservations ==
  {[err |-> TRUE, services |-> << >>],
   [err |-> FALSE, services |-> << >>],
   [err |-> FALSE, services |->
      <<[deployments |-> <<[status |-> "PRIMARY", rolloutState |-> "IN_PROGRESS"],
                           [status |-> "ACTIVE", rolloutState |-> "COMPLETED"]>>]>>],
   [err |-> FALSE, services |->
      <<[deployments |-> <<[status |-> "PRIMARY", rolloutState |-> "COMPLETED"]>>]>>]}

\* As WatchServiceBreaks, were the ACTIVE deployments not looked at.
WatchServiceBreaksOnCompletedPrimary(obs) ==
  IF obs.err THEN TRUE
  ELSE IF Len(obs.services) = 0 THEN TRUE
  ELSE LET deployments == obs.services[1].deployments
       IN \E i \in 1..Len(deployments) :
            deployments[i].status = "PRIMARY" /\ deployments[i].rolloutState = "COMPLETED"

\* One round of watchService's loop: TRUE when it breaks out of the loop.
WatchServiceBreaks(obs) ==
  IF obs.err THEN TRUE
  ELSE IF Len(obs.services) = 0 THEN TRUE
  ELSE LET deployments == obs.services[1].deployments
           hasCompletedPrimary ==
             \E i \in 1..Len(deployments) :
               deployments[i].status = "PRIMARY" /\ deployments[i].rolloutState = "COMPLETED"
           hasActiveDeployment ==
             \E i \in 1..Len(deployments) : deployments[i].status = "ACTIVE"
       IN hasCompletedPrimary /\ ~hasActiveDeployment

\* As ServiceDescribe, were an answer with no service fatal to the process.
ServiceDescribeFatalWhenMissing(u) ==
  /\ Alive
  /\ workers[u].pc = "describeService"
  /\ \E found \in {"error", "none", "service"} :
       IF found = "none"
       THEN /\ pc' = "fatal_stage"
            /\ workers' = [workers EXCEPT ![u] = [FatalWorker EXCEPT !.cause = "not found"]]
       ELSE /\ UNCHANGED pc
            /\ workers' = [workers EXCEPT ![u] =
                             IF found = "service"
                             THEN [@ EXCEPT !.pc = "describe"]
                             ELSE [@ EXCEPT !.pc = "send", !.status = "failed",
                                            !.cause = "call"]]
  /\ UNCHANGED <<options, config, called, failedCount, skippedCount,
                 serviceDeployErrors, report, gtd, taskCall, serviceCall, watchCall>>

\* deployService's DescribeServices call: an error, or no service in the
\* answer, is returned as the worker's error.
ServiceDescribe(u) ==
  /\ Alive
  /\ workers[u].pc = "describeService"
  /\ \E found \in {"error", "none", "service"} :
       workers' = [workers EXCEPT ![u] =
                     IF found = "service"
                     THEN [@ EXCEPT !.pc = "describe"]
                     ELSE [@ EXCEPT !.pc = "send", !.status = "failed",
                                    !.cause = IF found = "none" THEN "not found"
                                              ELSE "call"]]
  /\ UNCHANGED <<options, config, pc, called, failedCount, skippedCount,
                 serviceDeployErrors, report, gtd, taskCall, serviceCall, watchCall>>

\* deployService's UpdateService call.
ServiceUpdate(u) ==
  /\ Alive
  /\ workers[u].pc = "update"
  /\ \E ok \in BOOLEAN :
       workers' = [workers EXCEPT ![u] =
                     IF ok
                     THEN [@ EXCEPT !.pc = "watch"]
                     ELSE [@ EXCEPT !.pc = "send", !.status = "failed", !.cause = "call"]]
  /\ UNCHANGED <<options, config, pc, called, failedCount, skippedCount,
                 serviceDeployErrors, report, gtd, taskCall, serviceCall, watchCall>>

\* One round of watchService, which returns nothing to deployService.
WatchService(u) ==
  /\ Alive
  /\ u[1] = "services"
  /\ workers[u].pc = "watch"
  /\ \E obs \in WorkerServiceObservations :
       workers' = [workers EXCEPT ![u].pc =
                     IF WatchServiceBreaks(obs) THEN "wait" ELSE "watch"]
  /\ UNCHANGED <<options, config, pc, called, failedCount, skippedCount,
                 serviceDeployErrors, report, gtd, taskCall, serviceCall, watchCall>>

\* The ServicesStableWaiter: its error is the worker's error, else nil.
ServiceWait(u) ==
  /\ Alive
  /\ workers[u].pc = "wait"
  /\ \E ok \in BOOLEAN :
       workers' = [workers EXCEPT ![u] =
                     IF ok
                     THEN [@ EXCEPT !.pc = "done", !.status = "succeeded"]
                     ELSE [@ EXCEPT !.pc = "send", !.status = "failed", !.cause = "wait"]]
  /\ UNCHANGED <<options, config, pc, called, failedCount, skippedCount,
                 serviceDeployErrors, report, gtd, taskCall, serviceCall, watchCall>>

\* The worker goroutine of DeployServices hands its error to the
\* coordinator: serviceDeployErrors <- err, then wg.Done.  A send on a
\* closed channel panics, which ends the process; a send on a full one
\* blocks the goroutine (no one receives from the channel), so that it
\* never calls wg.Done; else the error is buffered.
ServiceSend(u) ==
  /\ Alive
  /\ workers[u].pc = "send"
  /\ IF serviceDeployErrors.closed
     THEN /\ pc' = "panicked"
          /\ workers' = [workers EXCEPT ![u].pc = "panicked"]
          /\ UNCHANGED serviceDeployErrors
     ELSE IF serviceDeployErrors.len >= serviceDeployErrors.cap
     THEN /\ workers' = [workers EXCEPT ![u].pc = "blocked"]
          /\ UNCHANGED <<pc, serviceDeployErrors>>
     ELSE /\ serviceDeployErrors' = [serviceDeployErrors EXCEPT !.len = @ + 1]
          /\ workers' = [workers EXCEPT ![u].pc = "done"]
          /\ UNCHANGED pc
  /\ UNCHANGED <<options, config, called, failedCount, skippedCount, report, gtd, taskCall, serviceCall, watchCall>>

\* ------------------------------------------------------------------------
\* The specification of a deploy run
\* ------------------------------------------------------------------------

TaskUnits == {u \in AllUnits : u[1] \in TaskStages}

ServiceUnits == {u \in AllUnits : u[1] = "services"}

Next ==
  \/ Setup
  \/ \E stage \in TaskStages : DeployTasksStart(stage)
  \/ \E stage \in TaskStages : DeployTasksReturn(stage)
  \/ DeployServicesStart
  \/ DeployServicesReturn
  \/ \E u \in AllUnits : BuilderDescribe(u)
  \/ \E u \in AllUnits : BuilderRegister(u)
  \/ \E u \in TaskUnits : TaskRun(u)
  \/ \E u \in TaskUnits : WatchTask(u)
  \/ \E u \in TaskUnits : TaskJoin(u)
  \/ \E u \in TaskUnits : TaskReadCount(u)
  \/ \E u \in TaskUnits : TaskWriteCount(u)
  \/ \E u \in ServiceUnits : ServiceDescribe(u)
  \/ \E u \in ServiceUnits : ServiceUpdate(u)
  \/ \E u \in ServiceUnits : WatchService(u)
  \/ \E u \in ServiceUnits : ServiceWait(u)
  \/ \E u \in ServiceUnits : ServiceSend(u)

Spec == Init /\ [][Next]_vars

\* A deploy run in which every call returns and every watcher and waiter
\* gets its final answer at some time: a step that changes the state is
\* taken while one is possible.  A poll that sees the task not stopped, or
\* the rollout not over, leaves the state as it is.
SpecLive == Spec /\ WF_vars(Next)

\* ------------------------------------------------------------------------
\* The specification of one call of GenerateTaskDefinition
\* ------------------------------------------------------------------------

\* The call's input, the revision the control plane holds, the request the
\* call has built (<< >> before), what it returned (a nil task definition
\* is << >>) and the RegisterTaskDefinition calls it issued.
GtdCalls ==
  [pc : {"describe"},
   input : GenerateTaskDefinitionInputs,
   stored : DescribeOutputs,
   request : {<< >>},
   registered : {<< >>},
   result : {[taskDefinition |-> << >>, updated |-> FALSE]},
   registerCalls : {0}]

InitBuild ==
  /\ options = [skipTasks |-> FALSE, skipTasksPre |-> FALSE, skipTasksPost |-> FALSE]
  /\ config = [pre |-> 0, services |-> 0, post |-> 0]
  /\ pc = "setup"
  /\ called = {}
  /\ workers = [u \in AllUnits |-> IdleWorker]
  /\ failedCount = 0
  /\ skippedCount = 0
  /\ serviceDeployErrors = NoChannel
  /\ report = [s \in Stages |-> NoReport]
  /\ gtd \in GtdCalls
  /\ taskCall = NoCall
  /\ serviceCall = NoCall
  /\ watchCall = NoCall

\* GenerateTaskDefinition up to its decision, as in BuilderDescribe.
GTDDescribe ==
  /\ gtd.pc = "describe"
  /\ \E ok \in BOOLEAN :
       LET built == BuildRequest(gtd.stored, gtd.input.UpdateableContainers,
                                 gtd.input.ImageTag)
       IN IF ~ok THEN gtd' = [gtd EXCEPT !.pc = "fatal"]
          ELSE IF built.fatal THEN gtd' = [gtd EXCEPT !.pc = "fatal"]
          ELSE IF ~built.updated
          THEN gtd' = [gtd EXCEPT !.pc = "returned",
                                  !.request = <<built.request>>,
                                  !.result = [taskDefinition |-> << >>, updated |-> FALSE]]
          ELSE gtd' = [gtd EXCEPT !.pc = "register", !.request = <<built.request>>]
  /\ UNCHANGED <<options, config, pc, called, workers, failedCount, skippedCount,
                 serviceDeployErrors, report, taskCall, serviceCall, watchCall>>

\* The RegisterTaskDefinition call and the return of the new revision.
GTDRegister ==
  /\ gtd.pc = "register"
  /\ \E ok \in BOOLEAN :
       IF ok
       THEN gtd' = [gtd EXCEPT
                      !.pc = "returned",
                      !.registered = gtd.request,
                      !.registerCalls = @ + 1,
                      !.result =
                        [taskDefinition |->
                           <<RegisteredTaskDefinition(gtd.request[1],
                               gtd.stored.taskDefinition.revision)>>,
                         updated |-> TRUE]]
       ELSE gtd' = [gtd EXCEPT !.pc = "fatal",
                               !.registered = gtd.request,
                               !.registerCalls = @ + 1]
  /\ UNCHANGED <<options, config, pc, called, workers, failedCount, skippedCount,
                 serviceDeployErrors, report, taskCall, serviceCall, watchCall>>

NextBuild == GTDDescribe \/ GTDRegister

SpecBuild == InitBuild /\ [][NextBuild]_vars

\* ------------------------------------------------------------------------
\* The specification of a redeploy: the builder called twice on one input
\* ------------------------------------------------------------------------

\* A builder call of the first run (run 1): as GtdCalls, over the revisions
\* without tags whose containers differ in name and image only.
RedeployCalls ==
  [pc : {"describe"},
   input : GenerateTaskDefinitionInputs,
   stored : {d \in DescribeOutputs :
               /\ d.tags = << >>
               /\ \A i \in 1..Len(d.taskDefinition.containers) :
                    d.taskDefinition.containers[i].other = "o1"},
   request : {<< >>},
   registered : {<< >>},
   result : {[taskDefinition |-> << >>, updated |-> FALSE]},
   registerCalls : {0},
   run : {1}]

InitRedeploy ==
  /\ options = [skipTasks |-> FALSE, skipTasksPre |-> FALSE, skipTasksPost |-> FALSE]
  /\ config = [pre |-> 0, services |-> 0, post |-> 0]
  /\ pc = "setup"
  /\ called = {}
  /\ workers = [u \in AllUnits |-> IdleWorker]
  /\ failedCount = 0
  /\ skippedCount = 0
  /\ serviceDeployErrors = NoChannel
  /\ report = [s \in Stages |-> NoReport]
  /\ gtd \in RedeployCalls
  /\ taskCall = NoCall
  /\ serviceCall = NoCall
  /\ watchCall = NoCall

\* The same stage run again with the same image tag and no other change
\* of the cluster: the builder is called on the same input, and the
\* revision it is given is the latest of the family, the one the first
\* run registered if it registered one.
GTDRedeploy ==
  /\ gtd.pc = "returned"
  /\ gtd.run = 1
  /\ gtd' = [gtd EXCEPT
               !.pc = "describe",
               !.run = 2,
               !.stored = IF gtd.result.updated
                          THEN [taskDefinition |-> gtd.result.taskDefinition[1],
                                tags |-> gtd.request[1].tags]
                          ELSE @,
               !.request = << >>,
               !.registered = << >>,
               !.result = [taskDefinition |-> << >>, updated |-> FALSE],
               !.registerCalls = 0]
  /\ UNCHANGED <<options, config, pc, called, workers, failedCount, skippedCount,
                 serviceDeployErrors, report, taskCall, serviceCall, watchCall>>

NextRedeploy == GTDDescribe \/ GTDRegister \/ GTDRedeploy

SpecRedeploy == InitRedeploy /\ [][NextRedeploy]_vars

\* ------------------------------------------------------------------------
\* The specification of the builder calls of the workers of one task stage
\* ------------------------------------------------------------------------

\* The families a configuration may name; "" is a family left out.
Families == {"migrate", "seed", ""}

\* The validation of a stage's task groups as far as the family goes:
\* every Family is required; the list carries no rule that its entries
\* differ from one another.
ValidStageTasks(tasks) == \A i \in 1..Len(tasks) : tasks[i] # ""

\* The task groups of a validated stage, by their families.
StageTasks ==
  {tasks \in SeqsUpTo(Families, MaxUnits) : Len(tasks) >= 1 /\ ValidStageTasks(tasks)}

\* The image tag of the stage's builder calls.
StageImageTag == <<"y">>

\* What DescribeTaskDefinition returns for a revision whose updatable
\* container has the given image.
StageDescribed(latest) ==
  [taskDefinition |->
     [top |-> TopLevelValues,
      containers |-> <<[name |-> "web", image |-> latest.image, other |-> "o1"]>>,
      revision |-> latest.revision],
   tags |-> << >>]

\* The builder calls of a stage: the task groups, where the builder of
\* each worker is (its revision the one it described, its image the one
\* of the request it has built, << >> before), the latest revision the
\* control plane holds of every family with the image of its updatable
\* container, and how many revisions the stage has registered per family.
StageBuilds ==
  {[pc |-> "stage",
    tasks |-> tasks,
    builders |-> [i \in 1..Len(tasks) |->
                    [pc |-> "describe", revision |-> 0, image |-> << >>]],
    latest |-> [f \in Families \ {""} |-> [revision |-> 1, image |-> image[f]]],
    registered |-> [f \in Families \ {""} |-> 0]] :
   tasks \in StageTasks, image \in [Families \ {""} -> Images]}

InitStage ==
  /\ options = [skipTasks |-> FALSE, skipTasksPre |-> FALSE, skipTasksPost |-> FALSE]
  /\ config = [pre |-> 0, services |-> 0, post |-> 0]
  /\ pc = "setup"
  /\ called = {}
  /\ workers = [u \in AllUnits |-> IdleWorker]
  /\ failedCount = 0
  /\ skippedCount = 0
  /\ serviceDeployErrors = NoChannel
  /\ report = [s \in Stages |-> NoReport]
  /\ gtd \in StageBuilds
  /\ taskCall = NoCall
  /\ serviceCall = NoCall
  /\ watchCall = NoCall

\* No builder of the stage has ended the process.
StageAlive == \A i \in 1..Len(gtd.builders) : gtd.builders[i].pc # "fatal"

\* The builder of worker i describes the latest revision of its family
\* and runs its loop over the containers: an error of the call or an
\* image that does not parse ends the process, an image already at the
\* tag returns unchanged, else the builder goes on to register the
\* request it has built, with the image the replacement produced.
StageDescribe(i) ==
  /\ gtd.pc = "stage"
  /\ StageAlive
  /\ i \in 1..Len(gtd.builders)
  /\ gtd.builders[i].pc = "describe"
  /\ \E ok \in BOOLEAN :
       LET described == gtd.latest[gtd.tasks[i]]
           built == BuildRequest(StageDescribed(described), WorkerUpdateable,
                                 StageImageTag)
       IN gtd' = [gtd EXCEPT
                    !.builders[i] =
                      IF ~ok \/ built.fatal
                      THEN [pc |-> "fatal", revision |-> 0, image |-> << >>]
                      ELSE IF ~built.updated
                      THEN [pc |-> "returned", revision |-> described.revision,
                            image |-> << >>]
                      ELSE [pc |-> "register", revision |-> described.revision,
                            image |-> built.request.containers[1].image]]
  /\ UNCHANGED <<options, config, pc, called, workers, failedCount, skippedCount,
                 serviceDeployErrors, report, taskCall, serviceCall, watchCall>>

\* The builder of worker i registers its request: the control plane makes
\* it the next revision of the family, holding the image of the request;
\* an error ends the process.
StageRegister(i) ==
  /\ gtd.pc = "stage"
  /\ StageAlive
  /\ i \in 1..Len(gtd.builders)
  /\ gtd.builders[i].pc = "register"
  /\ \E ok \in BOOLEAN :
       LET family == gtd.tasks[i]
       IN IF ~ok
          THEN gtd' = [gtd EXCEPT !.builders[i].pc = "fatal"]
          ELSE gtd' = [gtd EXCEPT
                         !.builders[i].pc = "returned",
                         !.latest[family] =
                           [revision |-> @.revision + 1,
                            image |-> gtd.builders[i].image],
                         !.registered[family] = @ + 1]
  /\ UNCHANGED <<options, config, pc, called, workers, failedCount, skippedCount,
                 serviceDeployErrors, report, taskCall, serviceCall, watchCall>>

NextStageBuild ==
  \/ \E i \in 1..MaxUnits : StageDescribe(i)
  \/ \E i \in 1..MaxUnits : StageRegister(i)

SpecStage == InitStage /\ [][NextStageBuild]_vars

\* ------------------------------------------------------------------------
\* The specification of one worker call: deployTask or deployService
\* ------------------------------------------------------------------------

\* GenerateTaskDefinition as a worker calls it, up to its decision: what
\* the DescribeTaskDefinition call and the loop over the containers come
\* to.  fatal: the call failed or an updatable image did not parse, and
\* the process ends; else updated tells whether an image was rewritten,
\* in which case the builder goes on to RegisterTaskDefinition, and
\* otherwise it returns (nil, false).
GenerateTaskDefinitionDescribed(updateableContainers) ==
  {[fatal |-> TRUE, updated |-> FALSE]} \cup
  {LET built == BuildRequest(described, updateableContainers, WorkerImageTag)
   IN [fatal |-> built.fatal, updated |-> ~built.fatal /\ built.updated] :
   described \in WorkerDescribeOutputs}

\* The builder's RegisterTaskDefinition call and its return: fatal when
\* the call failed and the process ends, else the new revision's
\* reference.  A task definition reference is a sequence of strings: the
\* family or the name it was given as, then what tells the revision.
GenerateTaskDefinitionRegistered(taskDefinition) ==
  {[fatal |-> TRUE, taskDefinitionArn |-> << >>],
   [fatal |-> FALSE, taskDefinitionArn |-> Append(taskDefinition, "next")]}

\* The bounds the validation tags of Task put on its count and on the
\* number of its capacity provider strategies, and those of
\* VpcConfiguration on the number of its security groups and subnets.
TaskCountMin == 1

TaskCountMax == 10

CapacityProviderStrategiesMax == 6

SecurityGroupsMax == 5

SubnetsMax == 16

\* A list of n capacity provider strategies, neighbours differing in
\* every field.
CapacityProviderStrategies(n) ==
  [i \in 1..n |-> [CapacityProvider |-> IF i % 2 = 1 THEN "spot" ELSE "ondemand",
                   Base |-> i - 1,
                   Weight |-> i]]

\* The items deployTask's loop appends for the configured strategies, as
\* RunTask reads them: Base and Weight are copied, CapacityProvider is a
\* pointer to the field of the range loop's variable.  When the build
\* gives the loop one variable for all iterations (the language version
\* of the module is before 1.22) every item points at the last strategy's
\* name; when it gives each iteration its own, at its own strategy's.
CapacityProviderStrategyItems(strategies, sharedLoopVariable) ==
  [i \in 1..Len(strategies) |->
     [CapacityProvider |-> IF sharedLoopVariable
                           THEN strategies[Len(strategies)].CapacityProvider
                           ELSE strategies[i].CapacityProvider,
      Base |-> strategies[i].Base,
      Weight |-> strategies[i].Weight]]

\* A VpcConfiguration with the given assign_public_ip and numbers of
\* security groups and subnets.
VpcConfigurations(assignPublicIP, securityGroups, subnets) ==
  [AssignPublicIP |-> assignPublicIP,
   SecurityGroups |-> [i \in 1..securityGroups |-> "sg"],
   Subnets |-> [i \in 1..subnets |-> "subnet"]]

\* The map deployTask builds of the containers the task group lists: the
\* names that may be updated.
TaskContainerUpdateable(containers) == {containers[i] : i \in 1..Len(containers)}

\* The task groups a configuration file may list, as unmarshalled and
\* before validation: LaunchType and NetworkConfiguration are pointers,
\* << >> when not set.
TaskConfigs ==
  [Family : {"migrate", ""},
   Containers : {<< >>, <<"web">>},
   Count : {TaskCountMin - 1, TaskCountMin, TaskCountMin + 1, TaskCountMax + 1},
   CapacityProviderStrategies :
     {CapacityProviderStrategies(n) : n \in {0, 1, CapacityProviderStrategiesMax + 1}},
   LaunchType : {<< >>, <<"ec2">>, <<"fargate">>, <<"external">>, <<"bogus">>},
   NetworkConfiguration :
     {<< >>} \cup
     {<<VpcConfigurations(assignPublicIP, securityGroups, subnets)>> :
        assignPublicIP \in BOOLEAN,
        securityGroups \in {0, 1, SecurityGroupsMax, SecurityGroupsMax + 1},
        subnets \in {0, 1, SubnetsMax, SubnetsMax + 1}}]

\* validate.Struct on a Task, by its validation tags: family required,
\* at least one container, count required and between 1 and 10, at most 6
\* strategies each with a capacity provider, a launch type one of three
\* when set, and of a network configuration assign_public_ip required (a
\* bool that must be true), between 1 and 5 security groups and between
\* 1 and 16 subnets.
ValidTask(task) ==
  /\ task.Family # ""
  /\ Len(task.Containers) >= 1
  /\ task.Count >= TaskCountMin /\ task.Count <= TaskCountMax
  /\ Len(task.CapacityProviderStrategies) <= CapacityProviderStrategiesMax
  /\ \A i \in 1..Len(task.CapacityProviderStrategies) :
       task.CapacityProviderStrategies[i].CapacityProvider # ""
  /\ task.LaunchType # << >> => task.LaunchType[1] \in {"ec2", "fargate", "external"}
  /\ task.NetworkConfiguration # << >> =>
       /\ task.NetworkConfiguration[1].AssignPublicIP
       /\ Len(task.NetworkConfiguration[1].SecurityGroups) >= 1
       /\ Len(task.NetworkConfiguration[1].SecurityGroups) <= SecurityGroupsMax
       /\ Len(task.NetworkConfiguration[1].Subnets) >= 1
       /\ Len(task.NetworkConfiguration[1].Subnets) <= SubnetsMax

\* The task groups a deployTask call taken on its own is made for: a
\* minimal one, and one with every optional field set.
WorkerTaskConfigs ==
  {[Family |-> "migrate", Containers |-> <<"web">>, Count |-> TaskCountMin,
    CapacityProviderStrategies |-> << >>, LaunchType |-> << >>,
    NetworkConfiguration |-> << >>],
   [Family |-> "migrate", Containers |-> <<"web">>, Count |-> TaskCountMin + 1,
    CapacityProviderStrategies |-> CapacityProviderStrategies(2),
    LaunchType |-> <<"fargate">>,
    NetworkConfiguration |-> <<VpcConfigurations(TRUE, 1, 1)>>]}

\* As RunTaskParams, were one task asked for whatever the count.
RunTaskParamsForOneTask(taskConfig, taskDefinitionUpdated, newTaskDefinitionArn, sharedLoopVariable) ==
  [Cluster |-> "cluster",
   Count |-> TaskCountMin,
   EnableECSManagedTags |-> TRUE,
   EnableExecuteCommand |-> FALSE,
   PropagateTags |-> "TASK_DEFINITION",
   TaskDefinition |-> IF taskDefinitionUpdated
                      THEN newTaskDefinitionArn
                      ELSE <<taskConfig.Family>>,
   CapacityProviderStrategy |->
     IF Len(taskConfig.CapacityProviderStrategies) > 0
     THEN CapacityProviderStrategyItems(taskConfig.CapacityProviderStrategies,
                                        sharedLoopVariable)
     ELSE << >>,
   LaunchType |->
     IF taskConfig.LaunchType = << >> THEN ""
     ELSE IF taskConfig.LaunchType[1] = "ec2" THEN "EC2"
     ELSE IF taskConfig.LaunchType[1] = "fargate" THEN "FARGATE"
     ELSE IF taskConfig.LaunchType[1] = "external" THEN "EXTERNAL"
     ELSE "",
   NetworkConfiguration |->
     IF taskConfig.NetworkConfiguration = << >> THEN << >>
     ELSE <<[AssignPublicIp |->
               IF taskConfig.NetworkConfiguration[1].AssignPublicIP
               THEN "ENABLED" ELSE "DISABLED",
             SecurityGroups |-> taskConfig.NetworkConfiguration[1].SecurityGroups,
             Subnets |-> taskConfig.NetworkConfiguration[1].Subnets]>>]

\* deployTask's RunTaskInput: a launch type that is not set (nil, or a
\* value the switch does not know) is "", a nil slice or pointer << >>.
RunTaskParams(taskConfig, taskDefinitionUpdated, newTaskDefinitionArn, sharedLoopVariable) ==
  [Cluster |-> "cluster",
   Count |-> taskConfig.Count,
   EnableECSManagedTags |-> TRUE,
   EnableExecuteCommand |-> FALSE,
   PropagateTags |-> "TASK_DEFINITION",
   TaskDefinition |-> IF taskDefinitionUpdated
                      THEN newTaskDefinitionArn
                      ELSE <<taskConfig.Family>>,
   CapacityProviderStrategy |->
     IF Len(taskConfig.CapacityProviderStrategies) > 0
     THEN CapacityProviderStrategyItems(taskConfig.CapacityProviderStrategies,
                                        sharedLoopVariable)
     ELSE << >>,
   LaunchType |->
     IF taskConfig.LaunchType = << >> THEN ""
     ELSE IF taskConfig.LaunchType[1] = "ec2" THEN "EC2"
     ELSE IF taskConfig.LaunchType[1] = "fargate" THEN "FARGATE"
     ELSE IF taskConfig.LaunchType[1] = "external" THEN "EXTERNAL"
     ELSE "",
   NetworkConfiguration |->
     IF taskConfig.NetworkConfiguration = << >> THEN << >>
     ELSE <<[AssignPublicIp |->
               IF taskConfig.NetworkConfiguration[1].AssignPublicIP
               THEN "ENABLED" ELSE "DISABLED",
             SecurityGroups |-> taskConfig.NetworkConfiguration[1].SecurityGroups,
             Subnets |-> taskConfig.NetworkConfiguration[1].Subnets]>>]

\* The log of the ECS calls of a worker after one more call of a polling
\* loop: the successive polls of a loop are kept as one entry.
Polled(calls, call) ==
  IF calls # << >> /\ calls[Len(calls)] = call THEN calls ELSE Append(calls, call)

\* A watcher goroutine of deployTask: polling, or returned from watchTask
\* on the observation kept in last, with an error or with nil.
\* waitedOnTask is the ARN of the task the goroutine was handed, described
\* the ARN its last DescribeTasks call named (<< >> before the first).
PollingWatcher ==
  [pc |-> "polling", last |-> << >>, err |-> FALSE,
   waitedOnTask |-> << >>, described |-> << >>]

\* The ARN of the i-th task of a RunTask answer.
TaskArn(i) == <<"task", i>>

\* The tasks of a RunTask answer with n tasks, by their ARNs.
RunTaskResultTasks(n) == [i \in 1..n |-> TaskArn(i)]

\* As TaskWatchers, were the goroutines to share the loop's last task.
TaskWatchersSharingTask(tasks) ==
  [index \in 1..Len(tasks) |-> [PollingWatcher EXCEPT !.waitedOnTask = tasks[Len(tasks)]]]

\* deployTask's loop over runTaskResult.Tasks: one watcher goroutine per
\* task, handed that task by value.
TaskWatchers(tasks) ==
  [index \in 1..Len(tasks) |-> [PollingWatcher EXCEPT !.waitedOnTask = tasks[index]]]

\* A deployTask call: runTaskErr is the error of its RunTask call
\* ("pending" before the call), runTaskResult the tasks of its answer,
\* calls the ECS calls it has made, in order.  taskWatchErrors is the
\* number of errors buffered in the channel of that name, capacity the
\* channel's capacity and closed whether it has been closed.
TaskCalls ==
  [pc : {"build"},
   taskConfig : WorkerTaskConfigs,
   taskDefinitionUpdated : {FALSE},
   runTaskParams : {<< >>},
   watchers : {<< >>},
   taskWatchErrors : {0},
   status : {"pending"},
   runTaskErr : {"pending"},
   runTaskResult : {<< >>},
   capacity : {0},
   closed : {FALSE},
   calls : {<< >>}]

\* The fields of the live service that deployService copies into its
\* UpdateServiceInput under the same name.
CopiedServiceFields ==
  {"CapacityProviderStrategy", "DeploymentConfiguration", "DesiredCount",
   "HealthCheckGracePeriodSeconds", "LoadBalancers", "NetworkConfiguration",
   "PlacementConstraints", "PlacementStrategy", "PlatformVersion",
   "PropagateTags", "ServiceRegistries"}

\* The live services DescribeServices may return: every copied field holds
\* a value of its own, the two flags any value.
LiveServices ==
  {[f \in CopiedServiceFields \cup
          {"ServiceName", "ClusterArn", "EnableECSManagedTags",
           "EnableExecuteCommand", "TaskDefinition"} |->
      IF f = "EnableECSManagedTags" THEN <<managedTags>>
      ELSE IF f = "EnableExecuteCommand" THEN <<executeCommand>>
      ELSE IF f = "TaskDefinition" THEN taskDefinition
      ELSE IF f = "ServiceName" THEN <<"web">>
      ELSE <<f, "value">>] :
   managedTags \in BOOLEAN, executeCommand \in BOOLEAN,
   taskDefinition \in {<<"web", "1">>, <<"api", "7">>}}

\* The services of the configuration a deployService call is made for:
\* Force and MaxWait are pointers, << >> when not set.
ServiceConfigs ==
  [Name : {"web"}, Force : {<< >>, <<TRUE>>, <<FALSE>>}, MaxWait : {<< >>, <<1>>}]

\* As UpdateServiceParams, were the force flag of the service left out.
UpdateServiceParamsNeverForced(service, serviceConfig, taskDefinitionUpdated, newTaskDefinitionArn) ==
  [f \in CopiedServiceFields \cup
         {"Service", "Cluster", "EnableECSManagedTags", "EnableExecuteCommand",
          "ForceNewDeployment", "TaskDefinition"} |->
     IF f = "Service" THEN service.ServiceName
     ELSE IF f = "Cluster" THEN service.ClusterArn
     ELSE IF f = "EnableECSManagedTags" THEN service.EnableECSManagedTags
     ELSE IF f = "EnableExecuteCommand" THEN service.EnableECSManagedTags
     ELSE IF f = "ForceNewDeployment"
     THEN FALSE
     ELSE IF f = "TaskDefinition"
     THEN IF taskDefinitionUpdated THEN newTaskDefinitionArn ELSE <<serviceConfig.Name>>
     ELSE service[f]]

\* deployService's UpdateServiceInput, its ForceNewDeployment and
\* TaskDefinition set as the code sets them after the struct literal.
UpdateServiceParams(service, serviceConfig, taskDefinitionUpdated, newTaskDefinitionArn) ==
  [f \in CopiedServiceFields \cup
         {"Service", "Cluster", "EnableECSManagedTags", "EnableExecuteCommand",
          "ForceNewDeployment", "TaskDefinition"} |->
     IF f = "Service" THEN service.ServiceName
     ELSE IF f = "Cluster" THEN service.ClusterArn
     ELSE IF f = "EnableECSManagedTags" THEN service.EnableECSManagedTags
     ELSE IF f = "EnableExecuteCommand" THEN service.EnableECSManagedTags
     ELSE IF f = "ForceNewDeployment"
     THEN IF serviceConfig.Force # << >> THEN serviceConfig.Force[1] ELSE FALSE
     ELSE IF f = "TaskDefinition"
     THEN IF taskDefinitionUpdated THEN newTaskDefinitionArn ELSE <<serviceConfig.Name>>
     ELSE service[f]]

\* The waiter's default maximum wait, in minutes.
DefaultMaxWaitMinutes == 15

\* deployService's maxWaitTime, in minutes.
MaxWaitTime(serviceConfig) ==
  IF serviceConfig.MaxWait # << >> THEN serviceConfig.MaxWait[1] ELSE DefaultMaxWaitMinutes

\* A deployService call: the live service of the cluster, the builder's
\* answer, the UpdateServiceInput it sent (<< >> before) and the error it
\* returned: "pending" before it returns, "nil", or what failed.
\* updateServiceErr is the error of its UpdateService call, watched how
\* watchService left its loop ("none" before: on a describe "error", on a
\* service "not found", or with the rollout "over"), calls the ECS calls
\* it has made, in order.
ServiceCalls ==
  [pc : {"describe"},
   serviceConfig : ServiceConfigs,
   live : LiveServices,
   taskDefinitionUpdated : {FALSE},
   updateServiceParams : {<< >>},
   maxWaitTime : {0},
   err : {"pending"},
   updateServiceErr : {"pending"},
   watched : {"none"},
   calls : {<< >>}]

InitWorker ==
  /\ options = [skipTasks |-> FALSE, skipTasksPre |-> FALSE, skipTasksPost |-> FALSE]
  /\ config = [pre |-> 0, services |-> 0, post |-> 0]
  /\ pc = "setup"
  /\ called = {}
  /\ workers = [u \in AllUnits |-> IdleWorker]
  /\ failedCount = 0
  /\ skippedCount = 0
  /\ serviceDeployErrors = NoChannel
  /\ report = [s \in Stages |-> NoReport]
  /\ gtd = GtdIdle
  /\ watchCall = NoCall
  /\ \/ taskCall \in TaskCalls /\ serviceCall = NoCall
     \/ taskCall = NoCall /\ serviceCall \in ServiceCalls

\* deployTask up to the builder's decision: the DescribeTaskDefinition
\* call and the loop over the containers.  The process ends, or the
\* builder goes on to register (the goroutine then waits in
\* RegisterTaskDefinition), or it returns unchanged and deployTask builds
\* its RunTaskInput on the family.  Whether the range loop over the
\* strategies has one variable or one per iteration is the build's choice.
DTBuild ==
  /\ taskCall.pc = "build"
  /\ \E built \in GenerateTaskDefinitionDescribed(
                     TaskContainerUpdateable(taskCall.taskConfig.Containers)),
        sharedLoopVariable \in BOOLEAN :
       IF built.fatal
       THEN taskCall' = [taskCall EXCEPT
                           !.pc = "fatal",
                           !.calls = Append(@, "DescribeTaskDefinition")]
       ELSE IF built.updated
       THEN taskCall' = [taskCall EXCEPT
                           !.pc = "register",
                           !.calls = Append(@, "DescribeTaskDefinition")]
       ELSE taskCall' = [taskCall EXCEPT
                           !.pc = "run",
                           !.calls = Append(@, "DescribeTaskDefinition"),
                           !.taskDefinitionUpdated = FALSE,
                           !.runTaskParams =
                             <<RunTaskParams(taskCall.taskConfig, FALSE, << >>,
                                             sharedLoopVariable)>>]
  /\ UNCHANGED <<options, config, pc, called, workers, failedCount, skippedCount,
                 serviceDeployErrors, report, gtd, serviceCall, watchCall>>

\* The builder's RegisterTaskDefinition call returns to deployTask: an
\* error ends the process, else deployTask builds its RunTaskInput on the
\* new revision.
DTRegister ==
  /\ taskCall.pc = "register"
  /\ \E registered \in GenerateTaskDefinitionRegistered(<<taskCall.taskConfig.Family>>),
        sharedLoopVariable \in BOOLEAN :
       IF registered.fatal
       THEN taskCall' = [taskCall EXCEPT
                           !.pc = "fatal",
                           !.calls = Append(@, "RegisterTaskDefinition")]
       ELSE taskCall' = [taskCall EXCEPT
                           !.pc = "run",
                           !.calls = Append(@, "RegisterTaskDefinition"),
                           !.taskDefinitionUpdated = TRUE,
                           !.runTaskParams =
                             <<RunTaskParams(taskCall.taskConfig, TRUE,
                                             registered.taskDefinitionArn,
                                             sharedLoopVariable)>>]
  /\ UNCHANGED <<options, config, pc, called, workers, failedCount, skippedCount,
                 serviceDeployErrors, report, gtd, serviceCall, watchCall>>

\* As TaskWatchErrorsCapacity, were the channel made without a buffer.
TaskWatchErrorsUnbuffered(numberOfTasks) == 0

\* The capacity deployTask makes taskWatchErrors with.
TaskWatchErrorsCapacity(numberOfTasks) == numberOfTasks

\* As DTRun, were the watchers started whatever RunTask returned.
DTRunWatchingRejected ==
  /\ taskCall.pc = "run"
  /\ \E ok \in BOOLEAN, numberOfTasks \in 0..MaxWatched :
       taskCall' = [taskCall EXCEPT
                      !.pc = "watch",
                      !.runTaskErr = IF ok THEN "nil" ELSE "error",
                      !.calls = Append(@, "RunTask"),
                      !.runTaskResult = RunTaskResultTasks(numberOfTasks),
                      !.capacity = TaskWatchErrorsCapacity(numberOfTasks),
                      !.watchers = TaskWatchers(RunTaskResultTasks(numberOfTasks))]
  /\ UNCHANGED <<options, config, pc, called, workers, failedCount, skippedCount,
                 serviceDeployErrors, report, gtd, serviceCall, watchCall>>

\* deployTask's RunTask call: on an error it returns FailedStatus, else it
\* starts one watcher goroutine per task of the answer.
DTRun ==
  /\ taskCall.pc = "run"
  /\ \E ok \in BOOLEAN, numberOfTasks \in 0..MaxWatched :
       taskCall' = IF ~ok
                   THEN [taskCall EXCEPT !.pc = "returned", !.status = "failed",
                                         !.runTaskErr = "error",
                                         !.calls = Append(@, "RunTask")]
                   ELSE [taskCall EXCEPT
                           !.pc = "watch",
                           !.runTaskErr = "nil",
                           !.calls = Append(@, "RunTask"),
                           !.runTaskResult = RunTaskResultTasks(numberOfTasks),
                           !.capacity = TaskWatchErrorsCapacity(numberOfTasks),
                           !.watchers = TaskWatchers(RunTaskResultTasks(numberOfTasks))]
  /\ UNCHANGED <<options, config, pc, called, workers, failedCount, skippedCount,
                 serviceDeployErrors, report, gtd, serviceCall, watchCall>>

\* One round of watchTask in the watcher goroutine of task i: it waits for
\* the ticker, or returns, sending its error on taskWatchErrors.  A send
\* on a closed channel panics, a send on a full one blocks the goroutine
\* (no one receives before the join), else the error is buffered and the
\* goroutine returns.  The call is left as one of the observations the
\* DescribeTasks call may make leaves it.
DTWatch(i) ==
  /\ taskCall.pc = "watch"
  /\ i \in 1..Len(taskCall.watchers)
  /\ taskCall.watchers[i].pc = "polling"
  /\ taskCall' \in
       {LET round == WatchTaskRound(obs)
            full == taskCall.taskWatchErrors >= taskCall.capacity
        IN IF round = "poll"
           THEN [taskCall EXCEPT
                   !.calls = Polled(@, "DescribeTasks"),
                   !.watchers[i].described = <<taskCall.watchers[i].waitedOnTask>>]
           ELSE [taskCall EXCEPT
                   !.calls = Polled(@, "DescribeTasks"),
                   !.watchers[i] =
                     [@ EXCEPT !.pc = IF round # "err" THEN "returned"
                                      ELSE IF taskCall.closed THEN "panicked"
                                      ELSE IF full THEN "blocked"
                                      ELSE "returned",
                               !.last = <<obs>>,
                               !.err = round = "err",
                               !.described = <<taskCall.watchers[i].waitedOnTask>>],
                   !.taskWatchErrors =
                     IF round = "err" /\ ~taskCall.closed /\ ~full
                     THEN @ + 1 ELSE @] :
        obs \in TaskObservations}
  /\ UNCHANGED <<options, config, pc, called, workers, failedCount, skippedCount,
                 serviceDeployErrors, report, gtd, serviceCall, watchCall>>

\* As TaskStatus, were the errors of the watchers not looked at.
TaskStatusIgnoringWatchers(watchErrors) == "succeeded"

\* deployTask's status after wg.Wait(): failedCount is len(taskWatchErrors).
TaskStatus(watchErrors) == IF watchErrors > 0 THEN "failed" ELSE "succeeded"

\* deployTask after wg.Wait() and close(taskWatchErrors).
DTJoin ==
  /\ taskCall.pc = "watch"
  /\ \A i \in 1..Len(taskCall.watchers) : taskCall.watchers[i].pc = "returned"
  /\ taskCall' = [taskCall EXCEPT !.pc = "returned",
                                  !.closed = TRUE,
                                  !.status = TaskStatus(taskCall.taskWatchErrors)]
  /\ UNCHANGED <<options, config, pc, called, workers, failedCount, skippedCount,
                 serviceDeployErrors, report, gtd, serviceCall, watchCall>>

\* deployService's DescribeServices call: its error, or an answer with no
\* service, is the error deployService returns.
DSDescribe ==
  /\ serviceCall.pc = "describe"
  /\ \E found \in {"error", "none", "service"} :
       serviceCall' = IF found = "service"
                      THEN [serviceCall EXCEPT !.pc = "build",
                                               !.calls = Append(@, "DescribeServices")]
                      ELSE IF found = "none"
                      THEN [serviceCall EXCEPT !.pc = "returned", !.err = "not found",
                                               !.calls = Append(@, "DescribeServices")]
                      ELSE [serviceCall EXCEPT !.pc = "returned", !.err = "describe",
                                               !.calls = Append(@, "DescribeServices")]
  /\ UNCHANGED <<options, config, pc, called, workers, failedCount, skippedCount,
                 serviceDeployErrors, report, gtd, taskCall, watchCall>>

\* deployService up to the builder's decision, on the live service's task
\* definition: the process ends, or the builder goes on to register (the
\* goroutine then waits in RegisterTaskDefinition), or it returns
\* unchanged and deployService builds its UpdateServiceInput: the force
\* flag, the maximum wait and the task definition the request names.
DSBuild ==
  /\ serviceCall.pc = "build"
  /\ \E built \in GenerateTaskDefinitionDescribed(WorkerUpdateable) :
       IF built.fatal
       THEN serviceCall' = [serviceCall EXCEPT
                              !.pc = "fatal",
                              !.calls = Append(@, "DescribeTaskDefinition")]
       ELSE IF built.updated
       THEN serviceCall' = [serviceCall EXCEPT
                              !.pc = "register",
                              !.calls = Append(@, "DescribeTaskDefinition")]
       ELSE serviceCall' = [serviceCall EXCEPT
                              !.pc = "update",
                              !.calls = Append(@, "DescribeTaskDefinition"),
                              !.taskDefinitionUpdated = FALSE,
                              !.maxWaitTime = MaxWaitTime(serviceCall.serviceConfig),
                              !.updateServiceParams =
                                <<UpdateServiceParams(serviceCall.live,
                                                      serviceCall.serviceConfig,
                                                      FALSE, << >>)>>]
  /\ UNCHANGED <<options, config, pc, called, workers, failedCount, skippedCount,
                 serviceDeployErrors, report, gtd, taskCall, watchCall>>

\* The builder's RegisterTaskDefinition call returns to deployService: an
\* error ends the process, else deployService builds its
\* UpdateServiceInput on the new revision.
DSRegister ==
  /\ serviceCall.pc = "register"
  /\ \E registered \in GenerateTaskDefinitionRegistered(serviceCall.live.TaskDefinition) :
       IF registered.fatal
       THEN serviceCall' = [serviceCall EXCEPT
                              !.pc = "fatal",
                              !.calls = Append(@, "RegisterTaskDefinition")]
       ELSE serviceCall' = [serviceCall EXCEPT
                              !.pc = "update",
                              !.calls = Append(@, "RegisterTaskDefinition"),
                              !.taskDefinitionUpdated = TRUE,
                              !.maxWaitTime = MaxWaitTime(serviceCall.serviceConfig),
                              !.updateServiceParams =
                                <<UpdateServiceParams(serviceCall.live,
                                                      serviceCall.serviceConfig,
                                                      TRUE,
                                                      registered.taskDefinitionArn)>>]
  /\ UNCHANGED <<options, config, pc, called, workers, failedCount, skippedCount,
                 serviceDeployErrors, report, gtd, taskCall, watchCall>>

\* As DSUpdate, were the error of UpdateService logged and not returned.
DSUpdateLoggingError ==
  /\ serviceCall.pc = "update"
  /\ \E ok \in BOOLEAN :
       serviceCall' = [serviceCall EXCEPT !.pc = "watch",
                                          !.updateServiceErr = IF ok THEN "nil" ELSE "error",
                                          !.calls = Append(@, "UpdateService")]
  /\ UNCHANGED <<options, config, pc, called, workers, failedCount, skippedCount,
                 serviceDeployErrors, report, gtd, taskCall, watchCall>>

\* deployService's UpdateService call: its error is the error
\* deployService returns, else watchService is called.
DSUpdate ==
  /\ serviceCall.pc = "update"
  /\ \E ok \in BOOLEAN :
       serviceCall' = IF ok
                      THEN [serviceCall EXCEPT !.pc = "watch",
                                               !.updateServiceErr = "nil",
                                               !.calls = Append(@, "UpdateService")]
                      ELSE [serviceCall EXCEPT !.pc = "returned", !.err = "update",
                                               !.updateServiceErr = "error",
                                               !.calls = Append(@, "UpdateService")]
  /\ UNCHANGED <<options, config, pc, called, workers, failedCount, skippedCount,
                 serviceDeployErrors, report, gtd, taskCall, watchCall>>

\* One round of watchService, which returns nothing to deployService.
DSWatch ==
  /\ serviceCall.pc = "watch"
  /\ \E obs \in WorkerServiceObservations :
       serviceCall' = [serviceCall EXCEPT
                         !.pc = IF WatchServiceBreaks(obs) THEN "wait" ELSE "watch",
                         !.watched = IF ~WatchServiceBreaks(obs) THEN @
                                     ELSE IF obs.err THEN "error"
                                     ELSE IF Len(obs.services) = 0 THEN "not found"
                                     ELSE "over",
                         !.calls = Polled(@, "watchService.DescribeServices")]
  /\ UNCHANGED <<options, config, pc, called, workers, failedCount, skippedCount,
                 serviceDeployErrors, report, gtd, taskCall, watchCall>>

\* As DSWait, were the watch loop entered again when the waiter fails.
DSWaitWatchingAgain ==
  /\ serviceCall.pc = "wait"
  /\ \E ok \in BOOLEAN :
       serviceCall' = IF ok
                      THEN [serviceCall EXCEPT !.pc = "returned", !.err = "nil",
                                               !.calls = Append(@, "ServicesStableWaiter.Wait")]
                      ELSE [serviceCall EXCEPT !.pc = "watch",
                                               !.calls = Append(@, "ServicesStableWaiter.Wait")]
  /\ UNCHANGED <<options, config, pc, called, workers, failedCount, skippedCount,
                 serviceDeployErrors, report, gtd, taskCall, watchCall>>

\* The ServicesStableWaiter with the maximum wait: its error, a timeout
\* among them, is the error deployService returns, else it returns nil.
DSWait ==
  /\ serviceCall.pc = "wait"
  /\ \E ok \in BOOLEAN :
       serviceCall' = [serviceCall EXCEPT !.pc = "returned",
                                          !.err = IF ok THEN "nil" ELSE "wait",
                                          !.calls = Append(@, "ServicesStableWaiter.Wait")]
  /\ UNCHANGED <<options, config, pc, called, workers, failedCount, skippedCount,
                 serviceDeployErrors, report, gtd, taskCall, watchCall>>

\* How the worker goroutine of DeployServices and the report count the
\* call: an error is a failed service, nil a completed one.
ServiceOutcome(err) == IF err = "nil" THEN "succeeded" ELSE "failed"

NextWorker ==
  \/ DTBuild
  \/ DTRegister
  \/ DTRun
  \/ \E i \in 1..MaxWatched : DTWatch(i)
  \/ DTJoin
  \/ DSDescribe
  \/ DSBuild
  \/ DSRegister
  \/ DSUpdate
  \/ DSWatch
  \/ DSWait

SpecWorker == InitWorker /\ [][NextWorker]_vars

\* ------------------------------------------------------------------------
\* The specification of a task group from the configuration to its RunTask
\* ------------------------------------------------------------------------

\* A task group as unmarshalled from the configuration file.
InitLaunch ==
  /\ options = [skipTasks |-> FALSE, skipTasksPre |-> FALSE, skipTasksPost |-> FALSE]
  /\ config = [pre |-> 0, services |-> 0, post |-> 0]
  /\ pc = "setup"
  /\ called = {}
  /\ workers = [u \in AllUnits |-> IdleWorker]
  /\ failedCount = 0
  /\ skippedCount = 0
  /\ serviceDeployErrors = NoChannel
  /\ report = [s \in Stages |-> NoReport]
  /\ gtd = GtdIdle
  /\ serviceCall = NoCall
  /\ watchCall = NoCall
  /\ \E call \in [pc : {"validate"},
                  taskConfig : TaskConfigs,
                  taskDefinitionUpdated : {FALSE},
                  runTaskParams : {<< >>},
                  watchers : {<< >>},
                  taskWatchErrors : {0},
                  status : {"pending"},
                  runTaskErr : {"pending"},
                  runTaskResult : {<< >>},
                  capacity : {0},
                  closed : {FALSE},
                  calls : {<< >>}] : taskCall = call

\* initConfig's validation: a configuration that fails it ends the process
\* (log.Fatal), an accepted one is deployed.
ConfigValidate ==
  /\ taskCall.pc = "validate"
  /\ taskCall' = [taskCall EXCEPT
                    !.pc = IF ValidTask(taskCall.taskConfig) THEN "build" ELSE "fatal"]
  /\ UNCHANGED <<options, config, pc, called, workers, failedCount, skippedCount,
                 serviceDeployErrors, report, gtd, serviceCall, watchCall>>

NextLaunch ==
  \/ ConfigValidate
  \/ DTBuild
  \/ DTRegister
  \/ DTRun

SpecLaunch == InitLaunch /\ [][NextLaunch]_vars

\* ------------------------------------------------------------------------
\* The specification of the fan-ins: the watchers of a task group, and the
\* workers of the services stage
\* ------------------------------------------------------------------------

\* A deployTask call taken on its own, as in InitWorker, or a run without
\* skip flags whose client is set up and whose configuration lists
\* services only.
InitFanIn ==
  \/ /\ InitWorker
     /\ serviceCall = NoCall
  \/ /\ options = [skipTasks |-> FALSE, skipTasksPre |-> FALSE, skipTasksPost |-> FALSE]
     /\ config \in {c \in Configs : c.pre = 0 /\ c.post = 0}
     /\ pc = "pre"
     /\ called = {}
     /\ workers = [u \in AllUnits |-> IdleWorker]
     /\ failedCount = 0
     /\ skippedCount = 0
     /\ serviceDeployErrors = NoChannel
     /\ report = [s \in Stages |-> NoReport]
     /\ gtd = GtdIdle
     /\ taskCall = NoCall
     /\ serviceCall = NoCall
     /\ watchCall = NoCall

NextFanIn ==
  \/ DTBuild
  \/ DTRegister
  \/ DTRun
  \/ \E i \in 1..MaxWatched : DTWatch(i)
  \/ DTJoin
  \/ \E stage \in TaskStages : DeployTasksStart(stage)
  \/ DeployServicesStart
  \/ DeployServicesReturn
  \/ \E u \in ServiceUnits : BuilderDescribe(u)
  \/ \E u \in ServiceUnits : BuilderRegister(u)
  \/ \E u \in ServiceUnits : ServiceDescribe(u)
  \/ \E u \in ServiceUnits : ServiceUpdate(u)
  \/ \E u \in ServiceUnits : WatchService(u)
  \/ \E u \in ServiceUnits : ServiceWait(u)
  \/ \E u \in ServiceUnits : ServiceSend(u)

SpecFanIn == InitFanIn /\ [][NextFanIn]_vars

\* ------------------------------------------------------------------------
\* The specification of one call of watchService
\* ------------------------------------------------------------------------

\* A watchService call: the answers of its DescribeServices calls so far.
InitWatch ==
  /\ options = [skipTasks |-> FALSE, skipTasksPre |-> FALSE, skipTasksPost |-> FALSE]
  /\ config = [pre |-> 0, services |-> 0, post |-> 0]
  /\ pc = "setup"
  /\ called = {}
  /\ workers = [u \in AllUnits |-> IdleWorker]
  /\ failedCount = 0
  /\ skippedCount = 0
  /\ serviceDeployErrors = NoChannel
  /\ report = [s \in Stages |-> NoReport]
  /\ gtd = GtdIdle
  /\ taskCall = NoCall
  /\ serviceCall = NoCall
  /\ watchCall = [pc |-> "watching", seen |-> << >>]

\* One round of watchService's loop: the DescribeServices call and either
\* the break out of the loop or the wait for the ticker.
WSRound ==
  /\ watchCall.pc = "watching"
  /\ Len(watchCall.seen) < MaxRounds
  /\ \E obs \in ServiceObservations :
       watchCall' = [pc |-> IF WatchServiceBreaks(obs) THEN "exited" ELSE "watching",
                     seen |-> Append(watchCall.seen, obs)]
  /\ UNCHANGED <<options, config, pc, called, workers, failedCount, skippedCount,
                 serviceDeployErrors, report, gtd, taskCall, serviceCall>>

NextWatch == WSRound

SpecWatch == InitWatch /\ [][NextWatch]_vars

\* ------------------------------------------------------------------------
\* Properties
\* ------------------------------------------------------------------------

\* The units of a stage whose worker ended in failure.
FailedUnits(stage) == {u \in Units(stage) : workers[u].status = "failed"}

\* A worker goroutine is running: started and not yet returned.
InFlight(u) == workers[u].pc \notin {"idle", "done", "fatal"}

\* C1: every report a stage has logged has total = successful + skipped +
\* failed, with total the number of units configured for the stage.
C1_BatchAccounting ==
  \A s \in Stages :
    report[s].logged =>
      /\ report[s].total = config[s]
      /\ report[s].total = report[s].successful + report[s].skipped + report[s].failed

\* A task stage of three task groups has reported failed and successful ones.
C1_Witness ==
  /\ report["pre"].logged
  /\ report["pre"].total = 3
  /\ report["pre"].failed >= 1
  /\ report["pre"].successful >= 1

\* C2: the failed count a stage reports is the number of its units whose
\* worker ended in failure.
C2_FailedCountExact ==
  \A s \in Stages :
    report[s].logged => report[s].failed = Cardinality(FailedUnits(s))

\* C3: no worker is about to write a counter of the stage while another
\* worker is about to read or write it: the counters are the coordinator's.
C3_CountersOnlyByCoordinator ==
  \A u \in AllUnits :
    workers[u].pc = "write" =>
      \A v \in AllUnits \ {u} : workers[v].pc \notin {"read", "write"}

\* C4: a unit's failure does not abort its siblings: a stage reports only
\* when all its workers have returned, and the process never ends while a
\* worker is still in flight.
C4_FailureNeverAbortsSiblings ==
  /\ \A s \in Stages :
       report[s].logged => \A u \in Units(s) : workers[u].pc = "done"
  /\ ~Alive => \A u \in AllUnits : ~InFlight(u)

\* C5: a failure inside the task definition builder is the failure of the
\* calling unit: the process is never ended from inside the builder.
C5_BuilderFailureStaysInUnit == pc # "fatal_builder"

\* C6: while a worker of the services stage is started, every
\* pre-deployment task group has returned (or the stage was skipped), and
\* while a worker of the post-deployment stage is started, every service
\* worker has returned, its stabilization wait included.
C6_StagesStrictlySequential ==
  /\ (\E u \in Units("services") : workers[u].pc # "idle") =>
       \A v \in Units("pre") :
         \/ workers[v].pc = "done"
         \/ StageSkipped("pre") /\ workers[v].pc = "idle"
  /\ (\E u \in Units("post") : workers[u].pc # "idle") =>
       /\ \A v \in Units("services") : workers[v].pc = "done"
       /\ \A v \in Units("pre") :
            \/ workers[v].pc = "done"
            \/ StageSkipped("pre") /\ workers[v].pc = "idle"

\* A post-deployment worker runs after a pre-deployment task group and a
\* service have both been deployed.
C6_Witness ==
  /\ config["pre"] >= 1
  /\ config["services"] >= 1
  /\ "pre" \in called
  /\ \E u \in Units("post") : workers[u].pc = "run"

\* C7 as stated: after a failed stage the next stage is still started, so a
\* run that has ended after a failed stage has called the next one.
C7_FailedStageDoesNotSkipNext ==
  \A s \in {"pre", "services"} :
    (report[s].logged /\ report[s].failed > 0 /\ ~Alive) => NextStage(s) \in called

\* C7 as amended: a stage that reports failed > 0 ends the run with
\* log.Fatal, and no later stage is started.
C7_FailedStageEndsRun ==
  \A s \in Stages :
    (report[s].logged /\ report[s].failed > 0) =>
      /\ pc = "fatal_stage"
      /\ s = "pre" => called = {"pre"}
      /\ s = "services" => "post" \notin called

\* The pre-deployment stage has failed with services configured.
C7_Witness ==
  /\ report["pre"].logged
  /\ report["pre"].failed > 0
  /\ config["services"] >= 1

\* C8: after a successful setup the run ends with a non-zero exit status
\* exactly when a stage has reported failed > 0.
C8_ExitStatusIffFailedReport ==
  (~Alive /\ pc # "fatal_setup") =>
    (ExitStatus # 0 <=> \E s \in Stages : report[s].logged /\ report[s].failed > 0)

\* The image reference ends in ":" and the tag, or carries no tag at all
\* while the tag is the default one: its current tag is the given tag.
CurrentTagIs(image, tag) ==
  \/ /\ Len(image) > Len(tag) + 1
     /\ SubSeq(image, Len(image) - Len(tag) + 1, Len(image)) = tag
     /\ image[Len(image) - Len(tag)] = ":"
  \/ /\ \A i \in 1..Len(image) : image[i] # ":"
     /\ tag = DefaultTag

\* Every updatable container of the described revision is at the tag.
UpdatableAtTag(described, updateable, tag) ==
  \A i \in 1..Len(described.taskDefinition.containers) :
    described.taskDefinition.containers[i].name \in updateable =>
      CurrentTagIs(described.taskDefinition.containers[i].image, tag)

\* C9: when every updatable container's current tag is the target tag, the
\* builder issues no RegisterTaskDefinition call and, when it returns,
\* returns (nil, false).
C9_NoOpBuild ==
  UpdatableAtTag(gtd.stored, gtd.input.UpdateableContainers, gtd.input.ImageTag) =>
    /\ gtd.registerCalls = 0
    /\ gtd.pc # "register"
    /\ gtd.pc = "returned" => gtd.result = [taskDefinition |-> << >>, updated |-> FALSE]

\* The builder has returned from a revision with an updatable container at
\* the tag and another container that is at another tag.
C9_Witness ==
  /\ gtd.pc = "returned"
  /\ UpdatableAtTag(gtd.stored, gtd.input.UpdateableContainers, gtd.input.ImageTag)
  /\ \E i, j \in 1..Len(gtd.stored.taskDefinition.containers) :
       /\ gtd.stored.taskDefinition.containers[i].name \in gtd.input.UpdateableContainers
       /\ gtd.stored.taskDefinition.containers[j].name \notin gtd.input.UpdateableContainers
       /\ gtd.stored.taskDefinition.containers[j].image = <<"r", "/", "a", ":", "x">>
       /\ gtd.input.ImageTag = <<"y">>

\* C10: the request the builder has built keeps the containers in their
\* order, leaves a container that is not updatable as it is, leaves every
\* field but the image of the others, and carries the top-level fields and
\* the tags of the source; the request it registers is that request.
C10_SelectivePatch ==
  gtd.request # << >> =>
    LET request == gtd.request[1]
        source == gtd.stored.taskDefinition
    IN /\ Len(request.containers) = Len(source.containers)
       /\ \A i \in 1..Len(source.containers) :
            /\ request.containers[i].name = source.containers[i].name
            /\ request.containers[i].other = source.containers[i].other
            /\ source.containers[i].name \notin gtd.input.UpdateableContainers =>
                 request.containers[i] = source.containers[i]
       /\ DOMAIN request.top = TopLevelFields
       /\ \A f \in TopLevelFields : request.top[f] = source.top[f]
       /\ request.tags = gtd.stored.tags
       /\ gtd.registered \in {<< >>, gtd.request}

\* The builder has registered a request in which the updatable second
\* container has a new image and the first, not updatable and at another
\* tag, has kept its image.
C10_Witness ==
  /\ gtd.pc = "returned"
  /\ gtd.result.updated
  /\ gtd.registered # << >>
  /\ Len(gtd.stored.taskDefinition.containers) = 2
  /\ gtd.stored.taskDefinition.containers[1].name \notin gtd.input.UpdateableContainers
  /\ ~CurrentTagIs(gtd.stored.taskDefinition.containers[1].image, gtd.input.ImageTag)
  /\ ParseOk(gtd.stored.taskDefinition.containers[1].image)
  /\ gtd.stored.taskDefinition.containers[2].name \in gtd.input.UpdateableContainers
  /\ gtd.registered[1].containers[2].image # gtd.stored.taskDefinition.containers[2].image
  /\ gtd.stored.tags # << >>


\* The builder rewrote the image of container i of the described revision:
\* the container is updatable, its image parses and its tag is not the new one.
Rewritten(described, updateable, imageTag, i) ==
  LET container == described.taskDefinition.containers[i]
  IN /\ container.name \in updateable
     /\ ParseOk(container.image)
     /\ ParsedTag(container.image) # imageTag

\* C11: every image the builder has rewritten keeps its registry and
\* repository, the part of the reference before the tag, and carries the
\* new tag as its tag.
C11_TagRewriteKeepsName ==
  gtd.request # << >> =>
    \A i \in 1..Len(gtd.stored.taskDefinition.containers) :
      Rewritten(gtd.stored, gtd.input.UpdateableContainers, gtd.input.ImageTag, i) =>
        LET old == gtd.stored.taskDefinition.containers[i].image
            new == gtd.request[1].containers[i].image
        IN /\ RefName(new) = RefName(old)
           /\ ParsedTag(new) = gtd.input.ImageTag

\* C12: whenever the builder has called RegisterTaskDefinition, a container
\* image of the registered request differs from the image of the same
\* container in the described revision.
C12_RegisterOnlyOnChange ==
  gtd.registerCalls > 0 =>
    \E i \in 1..Len(gtd.stored.taskDefinition.containers) :
      gtd.registered[1].containers[i].image # gtd.stored.taskDefinition.containers[i].image


\* The watcher of task i of the deployTask call has returned on an
\* observation of the task (no error, one task in the answer).
ReturnedOnTask(i) ==
  /\ taskCall.watchers[i].pc = "returned"
  /\ ~taskCall.watchers[i].last[1].err
  /\ Len(taskCall.watchers[i].last[1].tasks) > 0

\* The watcher of task i has returned because the answer held no task.
ReturnedOnNoTask(i) ==
  /\ taskCall.watchers[i].pc = "returned"
  /\ ~taskCall.watchers[i].last[1].err
  /\ Len(taskCall.watchers[i].last[1].tasks) = 0

\* C13: a watcher that returned on a STOPPED task returned an error when a
\* container had a non-zero exit code and nil when every container had exit
\* code 0; a deployTask call that returned with a failed watcher returned
\* the failed status.
C13_TaskFailureDetection ==
  taskCall.pc \in {"watch", "returned"} =>
    /\ \A i \in 1..Len(taskCall.watchers) :
         ReturnedOnTask(i) =>
           LET task == taskCall.watchers[i].last[1].tasks[1]
           IN /\ task.lastStatus = "STOPPED"
              /\ (\E j \in 1..Len(task.exitCodes) :
                    task.exitCodes[j] \notin {<< >>, <<0>>}) => taskCall.watchers[i].err
              /\ (\A j \in 1..Len(task.exitCodes) :
                    task.exitCodes[j] = <<0>>) => ~taskCall.watchers[i].err
    /\ (taskCall.pc = "returned" /\ \E i \in 1..Len(taskCall.watchers) :
                                      taskCall.watchers[i].err)
         => taskCall.status = "failed"

\* A task group of two tasks has returned: one task stopped with exit
\* codes 0 and 1, the other with 0 and 0.
C13_Witness ==
  /\ taskCall.pc = "returned"
  /\ Len(taskCall.watchers) = 2
  /\ ReturnedOnTask(1)
  /\ taskCall.watchers[1].last[1].tasks[1].exitCodes = <<<<0>>, <<1>>>>
  /\ taskCall.watchers[1].err
  /\ ReturnedOnTask(2)
  /\ taskCall.watchers[2].last[1].tasks[1].exitCodes = <<<<0>>, <<0>>>>
  /\ ~taskCall.watchers[2].err
  /\ taskCall.status = "failed"

\* C14: a watcher that returned because DescribeTasks held no task returned
\* an error, and the deployTask call that has returned with such a watcher
\* returned the failed status.
C14_DisappearedTaskFails ==
  taskCall.pc \in {"watch", "returned"} =>
    \A i \in 1..Len(taskCall.watchers) :
      ReturnedOnNoTask(i) =>
        /\ taskCall.watchers[i].err
        /\ taskCall.pc = "returned" => taskCall.status = "failed"


\* The rollout is over in the observed service: its PRIMARY deployment is
\* COMPLETED and no ACTIVE deployment remains.
RolloutOver(obs) ==
  LET deployments == obs.services[1].deployments
  IN /\ \E i \in 1..Len(deployments) :
          deployments[i].status = "PRIMARY" /\ deployments[i].rolloutState = "COMPLETED"
     /\ \A i \in 1..Len(deployments) : deployments[i].status # "ACTIVE"

\* C15: while every describe call has succeeded and returned the service,
\* the watch loop has exited exactly when the rollout is over in the last
\* observation, and the rollout was over in no earlier observation.
C15_ServiceWatchTermination ==
  (/\ watchCall.pc \in {"watching", "exited"}
   /\ \A i \in 1..Len(watchCall.seen) :
        ~watchCall.seen[i].err /\ Len(watchCall.seen[i].services) > 0) =>
    /\ watchCall.pc = "exited" <=>
         (Len(watchCall.seen) > 0 /\ RolloutOver(watchCall.seen[Len(watchCall.seen)]))
    /\ \A i \in 1..(Len(watchCall.seen) - 1) : ~RolloutOver(watchCall.seen[i])

\* The loop has exited on the second observation of the sequence
\* [{PRIMARY, IN_PROGRESS}, {ACTIVE}], [{PRIMARY, COMPLETED}].
C15_Witness ==
  /\ watchCall.pc = "exited"
  /\ watchCall.seen =
       <<[err |-> FALSE, services |->
            <<[deployments |-> <<[status |-> "PRIMARY", rolloutState |-> "IN_PROGRESS"],
                                 [status |-> "ACTIVE", rolloutState |-> "COMPLETED"]>>]>>],
         [err |-> FALSE, services |->
            <<[deployments |-> <<[status |-> "PRIMARY", rolloutState |-> "COMPLETED"]>>]>>]>>


\* C16: a service whose stabilization wait returned an error is a failed
\* unit on its way to the error channel or on it; once the services stage
\* has reported, the unit is among the failed ones it counted and the stage
\* has returned an error, on which the run ended.
C16_WaitErrorFailsUnit ==
  \A u \in Units("services") :
    workers[u].cause = "wait" =>
      /\ workers[u].status = "failed"
      /\ workers[u].pc \in {"send", "done"}
      /\ workers[u].pc = "done" => serviceDeployErrors.len >= 1
      /\ report["services"].logged =>
           /\ report["services"].failed = Cardinality(FailedUnits("services"))
           /\ report["services"].failed >= 1
           /\ pc = "fatal_stage"

\* The services stage has reported two services, one that succeeded and one
\* whose stabilization wait returned an error.
C16_Witness ==
  /\ report["services"].logged
  /\ report["services"].total = 2
  /\ report["services"].failed = 1
  /\ \E u \in Units("services") : workers[u].cause = "wait"
  /\ \E u \in Units("services") : workers[u].status = "succeeded"

\* C20: a service that is not on the cluster is a failed unit that hands
\* its error to the coordinator; the process is not ended by it: it ends
\* only after the stage's report or in the builder call of another unit;
\* once the stage has reported, every other service worker has returned
\* and the unit is among the failed ones the stage counted.
C20_MissingServiceIsReported ==
  \A u \in Units("services") :
    workers[u].cause = "not found" =>
      /\ workers[u].status = "failed"
      /\ workers[u].pc \in {"send", "done"}
      /\ pc \in {Waiting("services"), "fatal_stage", "fatal_builder"}
      /\ pc = "fatal_stage" => report["services"].logged
      /\ pc = "fatal_builder" => \E v \in Units("services") \ {u} : workers[v].pc = "fatal"
      /\ report["services"].logged =>
           /\ \A v \in Units("services") : workers[v].pc = "done"
           /\ report["services"].failed = Cardinality(FailedUnits("services"))
           /\ report["services"].failed >= 1

\* The services stage has reported two services, one that is not on the
\* cluster and one that was deployed and is stable.
C20_Witness ==
  /\ report["services"].logged
  /\ report["services"].total = 2
  /\ report["services"].failed = 1
  /\ report["services"].successful = 1
  /\ \E u \in Units("services") : workers[u].cause = "not found"
  /\ \E u \in Units("services") : workers[u].status = "succeeded"


\* The field of the live service that a field of the UpdateServiceInput
\* stands for.
LiveField(f) ==
  IF f = "Service" THEN "ServiceName" ELSE IF f = "Cluster" THEN "ClusterArn" ELSE f

\* C17: every field of the UpdateService request but the task definition
\* and the force flag carries the live service's value of the same field.
C17_UpdateRequestFrame ==
  (serviceCall.pc # "idle" /\ serviceCall.updateServiceParams # << >>) =>
    \A f \in DOMAIN serviceCall.updateServiceParams[1] \ {"TaskDefinition", "ForceNewDeployment"} :
      serviceCall.updateServiceParams[1][f] = serviceCall.live[LiveField(f)]

\* C18: when the builder reported no change, the RunTask request names the
\* task group's configured family and the UpdateService request names the
\* task definition the live service uses.
C18_NoChangeReusesSource ==
  /\ (taskCall.pc # "idle" /\ taskCall.runTaskParams # << >>
      /\ ~taskCall.taskDefinitionUpdated) =>
       taskCall.runTaskParams[1].TaskDefinition = <<taskCall.taskConfig.Family>>
  /\ (serviceCall.pc # "idle" /\ serviceCall.updateServiceParams # << >>
      /\ ~serviceCall.taskDefinitionUpdated) =>
       serviceCall.updateServiceParams[1].TaskDefinition = serviceCall.live.TaskDefinition

\* C19: a deployService call that has returned after a build with no change
\* and with no forced deployment is counted as skipped.
C19_NoChangeServiceSkipped ==
  (/\ serviceCall.pc = "returned"
   /\ serviceCall.updateServiceParams # << >>
   /\ ~serviceCall.taskDefinitionUpdated
   /\ ~serviceCall.updateServiceParams[1].ForceNewDeployment) =>
    ServiceOutcome(serviceCall.err) = "skipped"


\* C21: a stage that was called with no unit configured never waits for
\* workers, starts none (the control-plane calls are all made by workers),
\* logs no failure and returns nil: run goes on to the next stage at once,
\* so that the next stage is about to be called, was called, or was skipped
\* by its flags.
C21_EmptyStageVacuousSuccess ==
  \A s \in Stages :
    (s \in called /\ config[s] = 0) =>
      /\ pc # Waiting(s)
      /\ \A u \in AllUnits : u[1] = s => workers[u] = IdleWorker
      /\ report[s].failed = 0
      /\ s = "pre" => (pc = "services" \/ "services" \in called)
      /\ s = "services" =>
           (pc = "post" \/ "post" \in called \/ (StageSkipped("post") /\ pc = "returned"))
      /\ s = "post" => pc = "returned"

\* The pre-deployment stage and the services stage were called with no unit
\* configured and the workers of the post-deployment stage are running.
C21_Witness ==
  /\ config["pre"] = 0
  /\ config["services"] = 0
  /\ {"pre", "services", "post"} \subseteq called
  /\ pc = Waiting("post")
  /\ \E u \in Units("post") : workers[u].pc # "idle"


\* C22: no RunTask request built for a task group that passed validation
\* carries both a capacity provider strategy and a launch type.
C22_StrategyExcludesLaunchType ==
  (taskCall.pc # "idle" /\ taskCall.runTaskParams # << >>) =>
    ~(/\ Len(taskCall.runTaskParams[1].CapacityProviderStrategy) > 0
      /\ taskCall.runTaskParams[1].LaunchType # "")


\* C23: once run is past the pre-deployment stage, DeployTasks was called
\* for it iff neither --skip-tasks nor --skip-pre-tasks is set; once run is
\* past the services stage, DeployServices was called whatever the flags;
\* once run has returned, or is in the post-deployment stage, DeployTasks
\* was called for that stage iff neither --skip-tasks nor --skip-post-tasks
\* is set.
C23_StageSkipFlags ==
  /\ pc \notin {"setup", "fatal_setup", "pre"} =>
       ("pre" \in called <=> (~options.skipTasks /\ ~options.skipTasksPre))
  /\ pc \in {Waiting("services"), "post", Waiting("post"), "returned"} =>
       "services" \in called
  /\ pc \in {Waiting("post"), "returned"} =>
       ("post" \in called <=> (~options.skipTasks /\ ~options.skipTasksPost))
  /\ "post" \in called =>
       (~options.skipTasks /\ ~options.skipTasksPost /\ "services" \in called)

\* With only --skip-pre-tasks set and a pre-deployment task group
\* configured, the post-deployment workers run after the services stage and
\* the pre-deployment stage was never called.
C23_Witness ==
  /\ options = [skipTasks |-> FALSE, skipTasksPre |-> TRUE, skipTasksPost |-> FALSE]
  /\ config["pre"] >= 1
  /\ config["services"] >= 1
  /\ pc = Waiting("post")
  /\ called = {"services", "post"}
  /\ \A u \in Units("pre") : workers[u] = IdleWorker


\* C24: in a run in which every call returns and every watch ends, a stage
\* that was called with units configured at some time logs its report.
C24_StartedStageReports ==
  \A s \in Stages : (s \in called /\ config[s] > 0) ~> report[s].logged


\* The units of a stage whose worker ended with the given outcome.
UnitsWithStatus(stage, status) == {u \in Units(stage) : workers[u].status = status}

\* C25: the report of a stage and its result are those the outcomes of its
\* units determine, whatever the order in which its workers ran: the counts
\* are the numbers of units with each outcome, and the stage returned an
\* error iff a unit failed.
C25_OrderIndependence ==
  \A s \in Stages :
    report[s].logged =>
      /\ report[s].total = Cardinality(Units(s))
      /\ report[s].successful = Cardinality(UnitsWithStatus(s, "succeeded"))
      /\ report[s].skipped = Cardinality(UnitsWithStatus(s, "skipped"))
      /\ report[s].failed = Cardinality(UnitsWithStatus(s, "failed"))
      /\ (UnitsWithStatus(s, "failed") # {}) => pc = "fatal_stage"


\* C26: a watcher that has returned from watchTask returned on an
\* observation in which DescribeTasks gave an error, no task, or the task
\* with last status STOPPED, never on a task that is there and not
\* stopped; when the observation is an error it returned an error.
C26_WatchTaskReturns ==
  taskCall.pc \in {"watch", "returned"} =>
    \A i \in 1..Len(taskCall.watchers) :
      taskCall.watchers[i].pc = "returned" =>
        LET obs == taskCall.watchers[i].last[1]
        IN /\ \/ obs.err
              \/ Len(obs.tasks) = 0
              \/ obs.tasks[1].lastStatus = "STOPPED"
           /\ obs.err => taskCall.watchers[i].err

\* A deployTask call with two watchers: one returned on a describe error,
\* with an error, the other on a stopped task.
C26_Witness ==
  /\ taskCall.pc = "watch"
  /\ Len(taskCall.watchers) = 2
  /\ taskCall.watchers[1].pc = "returned"
  /\ taskCall.watchers[1].last[1].err
  /\ taskCall.watchers[1].err
  /\ taskCall.watchers[2].pc = "returned"
  /\ ~taskCall.watchers[2].last[1].err
  /\ Len(taskCall.watchers[2].last[1].tasks) = 1
  /\ taskCall.watchers[2].last[1].tasks[1].lastStatus = "STOPPED"


\* C27: when watchService left its loop because its describe call failed
\* or the service was no longer there, the process is not ended and the
\* deployService call, once returned, is counted as a failed service.
C27_VanishedServiceFails ==
  (serviceCall.pc # "idle" /\ serviceCall.watched \in {"error", "not found"}) =>
    /\ serviceCall.pc # "fatal"
    /\ serviceCall.pc = "returned" => ServiceOutcome(serviceCall.err) = "failed"


\* How many times a call occurs in a log of calls.
CallCount(calls, call) == Cardinality({i \in 1..Len(calls) : calls[i] = call})

\* C28: a deployService call whose UpdateService succeeded invokes the
\* stabilization wait exactly once by the time it returns, as its last
\* call, after watchService has left its loop and never before or while
\* the loop polls; a call whose UpdateService was rejected or not made
\* never invokes it.
C28_StabilizationWaitOnce ==
  serviceCall.pc # "idle" =>
    LET calls == serviceCall.calls
        waits == CallCount(calls, "ServicesStableWaiter.Wait")
    IN /\ waits <= 1
       /\ serviceCall.updateServiceErr # "nil" => waits = 0
       /\ (serviceCall.pc = "returned" /\ serviceCall.updateServiceErr = "nil") => waits = 1
       /\ serviceCall.pc = "watch" => waits = 0
       /\ waits = 1 =>
            /\ serviceCall.watched # "none"
            /\ Len(calls) >= 2
            /\ calls[Len(calls)] = "ServicesStableWaiter.Wait"
            /\ calls[Len(calls) - 1] = "watchService.DescribeServices"

\* A deployService call that returned nil: its update succeeded, the
\* watch loop saw the rollout over and the wait followed it.
C28_Witness ==
  /\ serviceCall.pc = "returned"
  /\ serviceCall.updateServiceErr = "nil"
  /\ serviceCall.watched = "over"
  /\ serviceCall.err = "nil"
  /\ CallCount(serviceCall.calls, "ServicesStableWaiter.Wait") = 1
  /\ CallCount(serviceCall.calls, "RegisterTaskDefinition") = 1


\* The place of an ECS call in the order of a worker's calls.
CallRank(call) ==
  CASE call = "DescribeServices" -> 0
    [] call = "DescribeTaskDefinition" -> 1
    [] call = "RegisterTaskDefinition" -> 2
    [] call \in {"RunTask", "UpdateService"} -> 3
    [] call \in {"DescribeTasks", "watchService.DescribeServices"} -> 4
    [] call = "ServicesStableWaiter.Wait" -> 5

\* The calls of a log are in the order of a worker: each kind of call at
\* most once (the polls of a loop are one entry), the task definition
\* described before it is registered, both before RunTask / UpdateService,
\* and that before the watch polls.
CallsInOrder(calls) ==
  /\ \A i, j \in 1..Len(calls) : i < j => CallRank(calls[i]) < CallRank(calls[j])
  /\ CallCount(calls, "RegisterTaskDefinition") = 1 =>
       CallCount(calls, "DescribeTaskDefinition") = 1
  /\ CallCount(calls, "RunTask") + CallCount(calls, "UpdateService") = 1 =>
       CallCount(calls, "DescribeTaskDefinition") = 1
  /\ CallCount(calls, "DescribeTasks") = 1 => CallCount(calls, "RunTask") = 1
  /\ CallCount(calls, "watchService.DescribeServices") = 1 =>
       CallCount(calls, "UpdateService") = 1

\* C29: within one worker the calls are made in the order describe task
\* definition, register (made iff the definition changed), RunTask or
\* UpdateService, watch polls; a worker whose build failed issues no
\* RunTask or UpdateService, and one whose RunTask or UpdateService was
\* rejected starts no watcher and makes no watch poll.
C29_PerUnitCallOrder ==
  /\ taskCall.pc # "idle" =>
       /\ CallsInOrder(taskCall.calls)
       /\ taskCall.pc \in {"run", "watch", "returned"} =>
            (taskCall.taskDefinitionUpdated <=>
               CallCount(taskCall.calls, "RegisterTaskDefinition") = 1)
       /\ taskCall.pc = "fatal" => CallCount(taskCall.calls, "RunTask") = 0
       /\ taskCall.runTaskErr = "error" =>
            /\ taskCall.watchers = << >>
            /\ CallCount(taskCall.calls, "DescribeTasks") = 0
  /\ serviceCall.pc # "idle" =>
       /\ CallsInOrder(serviceCall.calls)
       /\ serviceCall.pc \in {"update", "watch", "wait"} =>
            (serviceCall.taskDefinitionUpdated <=>
               CallCount(serviceCall.calls, "RegisterTaskDefinition") = 1)
       /\ serviceCall.pc = "fatal" => CallCount(serviceCall.calls, "UpdateService") = 0
       /\ serviceCall.updateServiceErr = "error" =>
            /\ serviceCall.watched = "none"
            /\ CallCount(serviceCall.calls, "watchService.DescribeServices") = 0

\* A deployTask call that made all four kinds of call, in order, and
\* returned.
C29_Witness ==
  /\ taskCall.pc = "returned"
  /\ taskCall.calls = <<"DescribeTaskDefinition", "RegisterTaskDefinition",
                        "RunTask", "DescribeTasks">>
  /\ taskCall.taskDefinitionUpdated
  /\ Len(taskCall.watchers) = 2


\* C30: a deployTask call issues at most one RunTask request, whose Count
\* is the count of the task group's configuration; when RunTask is
\* rejected the call returns at once with the status failed.
C30_OneRunTask ==
  taskCall.pc \in {"build", "register", "run", "watch", "returned", "fatal"} =>
    /\ CallCount(taskCall.calls, "RunTask") <= 1
    /\ CallCount(taskCall.calls, "RunTask") = 1 =>
         /\ taskCall.runTaskParams # << >>
         /\ taskCall.runTaskParams[1].Count = taskCall.taskConfig.Count
         /\ taskCall.runTaskErr \in {"nil", "error"}
    /\ taskCall.runTaskErr = "error" =>
         /\ taskCall.pc = "returned"
         /\ taskCall.status = "failed"
         /\ taskCall.calls[Len(taskCall.calls)] = "RunTask"

\* A deployTask call for a task group of two tasks whose RunTask was
\* rejected.
C30_Witness ==
  /\ taskCall.pc = "returned"
  /\ taskCall.taskConfig.Count = 2
  /\ taskCall.runTaskErr = "error"
  /\ taskCall.status = "failed"
  /\ taskCall.runTaskParams[1].Count = 2


\* C31: once RunTask has answered, every task of the answer has exactly
\* one watcher goroutine, each watcher's DescribeTasks calls name the ARN
\* of the task it was handed, and deployTask has an outcome only when all
\* of the watchers have returned.
C31_EveryTaskWatched ==
  (taskCall.pc \in {"watch", "returned"} /\ taskCall.runTaskErr = "nil") =>
    /\ Len(taskCall.watchers) = Len(taskCall.runTaskResult)
    /\ \A t \in 1..Len(taskCall.runTaskResult) :
         Cardinality({i \in 1..Len(taskCall.watchers) :
                        taskCall.watchers[i].waitedOnTask = taskCall.runTaskResult[t]}) = 1
    /\ \A i \in 1..Len(taskCall.watchers) :
         taskCall.watchers[i].described \in {<< >>, <<taskCall.watchers[i].waitedOnTask>>}
    /\ (taskCall.pc = "returned" \/ taskCall.status # "pending") =>
         \A i \in 1..Len(taskCall.watchers) :
           /\ taskCall.watchers[i].pc = "returned"
           /\ taskCall.watchers[i].described = <<taskCall.runTaskResult[i]>>

\* A deployTask call that returned after its two watchers, each of which
\* polled its own task.
C31_Witness ==
  /\ taskCall.pc = "returned"
  /\ taskCall.runTaskErr = "nil"
  /\ Len(taskCall.runTaskResult) = 2
  /\ taskCall.watchers[1].described = <<TaskArn(1)>>
  /\ taskCall.watchers[2].described = <<TaskArn(2)>>
  /\ taskCall.watchers[1].pc = "returned"
  /\ taskCall.watchers[2].pc = "returned"


\* The place of a step of deployTask or deployService in the order of the
\* phases: the service's describe, build, register, launch or update,
\* watch, stabilize, and the end of the call.
PhaseRank(step) ==
  CASE step = "describe" -> 0
    [] step = "build" -> 1
    [] step = "register" -> 2
    [] step \in {"run", "update"} -> 3
    [] step = "watch" -> 4
    [] step = "wait" -> 5
    [] step \in {"returned", "fatal"} -> 6

\* C32: no step of a worker call takes it back to an earlier phase, and
\* once the call has its outcome (the task group's status, the service's
\* returned error) the outcome stays as it is and no further call is made.
C32_MonotonePhases ==
  [][ /\ taskCall.pc # "idle" =>
           /\ PhaseRank(taskCall'.pc) >= PhaseRank(taskCall.pc)
           /\ taskCall.status # "pending" =>
                /\ taskCall'.status = taskCall.status
                /\ taskCall'.calls = taskCall.calls
      /\ serviceCall.pc # "idle" =>
           /\ PhaseRank(serviceCall'.pc) >= PhaseRank(serviceCall.pc)
           /\ serviceCall.err # "pending" =>
                /\ serviceCall'.err = serviceCall.err
                /\ serviceCall'.calls = serviceCall.calls ]_vars

\* A deployService call that went through every phase and returned the
\* waiter's error.
C32_Witness ==
  /\ serviceCall.pc = "returned"
  /\ serviceCall.err = "wait"
  /\ serviceCall.calls = <<"DescribeServices", "DescribeTaskDefinition",
                           "RegisterTaskDefinition", "UpdateService",
                           "watchService.DescribeServices", "ServicesStableWaiter.Wait">>


\* C33: in the second run of a stage with the same image tag the builder
\* finds nothing to change: it makes no RegisterTaskDefinition call and
\* returns unchanged.
C33_RedeployIdempotent ==
  (gtd.pc # "idle" /\ gtd.run = 2) =>
    /\ gtd.pc # "register"
    /\ gtd.registerCalls = 0
    /\ ~gtd.result.updated


\* C34: within one stage of a validated configuration at most one new
\* revision is registered per task-definition family.
C34_OneRevisionPerFamily ==
  gtd.pc = "stage" => \A f \in DOMAIN gtd.registered : gtd.registered[f] <= 1


\* C35: the capacity provider strategy of the RunTask request is the
\* configured list, entry by entry and in order: the i-th item has the
\* i-th strategy's provider name, base and weight.
C35_StrategyEntryByEntry ==
  (taskCall.pc \in {"run", "watch", "returned"} /\ taskCall.runTaskParams # << >>) =>
    LET items == taskCall.runTaskParams[1].CapacityProviderStrategy
        strategies == taskCall.taskConfig.CapacityProviderStrategies
    IN /\ Len(items) = Len(strategies)
       /\ \A i \in 1..Len(items) :
            /\ items[i].CapacityProvider = strategies[i].CapacityProvider
            /\ items[i].Base = strategies[i].Base
            /\ items[i].Weight = strategies[i].Weight


\* C36: the UpdateService request's ForceNewDeployment is true exactly
\* when the service's configuration sets force to true, so false when
\* force is absent; and a service with force set to true whose build
\* found nothing to change is still updated and, when the update is
\* accepted, watched and waited for before deployService returns.
C36_ForcedDeployment ==
  serviceCall.pc # "idle" =>
    /\ serviceCall.updateServiceParams # << >> =>
         (serviceCall.updateServiceParams[1].ForceNewDeployment
            <=> serviceCall.serviceConfig.Force = <<TRUE>>)
    /\ (/\ serviceCall.pc = "returned"
        /\ serviceCall.serviceConfig.Force = <<TRUE>>
        /\ CallCount(serviceCall.calls, "DescribeTaskDefinition") = 1
        /\ ~serviceCall.taskDefinitionUpdated) =>
         /\ CallCount(serviceCall.calls, "UpdateService") = 1
         /\ serviceCall.updateServiceParams[1].ForceNewDeployment
         /\ serviceCall.updateServiceErr = "nil" =>
              /\ CallCount(serviceCall.calls, "watchService.DescribeServices") = 1
              /\ CallCount(serviceCall.calls, "ServicesStableWaiter.Wait") = 1

\* A deployService call for a service with force set to true: the build
\* changed nothing, the forced update was sent, watched and waited for.
C36_Witness ==
  /\ serviceCall.pc = "returned"
  /\ serviceCall.serviceConfig.Force = <<TRUE>>
  /\ ~serviceCall.taskDefinitionUpdated
  /\ serviceCall.updateServiceParams # << >>
  /\ serviceCall.updateServiceParams[1].ForceNewDeployment
  /\ serviceCall.err = "nil"
  /\ CallCount(serviceCall.calls, "RegisterTaskDefinition") = 0


\* The watchers of a deployTask call that saw their task stopped and
\* returned nil.
StoppedSuccessfully(call) ==
  {i \in 1..Len(call.watchers) :
     /\ call.watchers[i].pc = "returned"
     /\ ~call.watchers[i].err
     /\ ~call.watchers[i].last[1].err
     /\ Len(call.watchers[i].last[1].tasks) = 1
     /\ call.watchers[i].last[1].tasks[1].lastStatus = "STOPPED"}

\* C37: a deployTask call returns succeeded only when as many tasks as
\* the configured count were launched and watched to a successful stop.
C37_SucceededMeansCountRan ==
  (taskCall.pc = "returned" /\ taskCall.status = "succeeded") =>
    Cardinality(StoppedSuccessfully(taskCall)) = taskCall.taskConfig.Count


\* C38: a watcher that returned nil on a task it saw STOPPED saw an exit
\* code on every container of the task, and every one of them 0.
C38_SuccessNeedsExitCodes ==
  taskCall.pc \in {"watch", "returned"} =>
    \A i \in StoppedSuccessfully(taskCall) :
      LET task == taskCall.watchers[i].last[1].tasks[1]
      IN \A j \in 1..Len(task.exitCodes) : task.exitCodes[j] = <<0>>


\* The service workers that have handed an error to the coordinator.
ServiceErrorsSent ==
  {u \in Units("services") : workers[u].pc = "done" /\ workers[u].status = "failed"}

\* C39: in both fan-ins, that of a task group's watchers and that of the
\* services stage's workers, the channel's capacity is the number of
\* workers, no worker is ever blocked in its send or panics on a closed
\* channel, the channel holds one error for every worker that returned
\* one and nothing else, it is closed only when every worker has
\* returned, and once they all have the join can return.
C39_FanIn ==
  /\ (taskCall.pc \in {"watch", "returned"} /\ taskCall.runTaskErr = "nil") =>
       /\ taskCall.capacity = Len(taskCall.watchers)
       /\ \A i \in 1..Len(taskCall.watchers) :
            taskCall.watchers[i].pc \in {"polling", "returned"}
       /\ taskCall.taskWatchErrors =
            Cardinality({i \in 1..Len(taskCall.watchers) :
                           taskCall.watchers[i].pc = "returned" /\ taskCall.watchers[i].err})
       /\ taskCall.taskWatchErrors <= taskCall.capacity
       /\ taskCall.closed =>
            \A i \in 1..Len(taskCall.watchers) : taskCall.watchers[i].pc = "returned"
       /\ (/\ taskCall.pc = "watch"
           /\ \A i \in 1..Len(taskCall.watchers) : taskCall.watchers[i].pc = "returned")
            => ENABLED DTJoin
  /\ pc # "panicked"
  /\ ("services" \in called /\ config["services"] > 0) =>
       /\ serviceDeployErrors.cap = Cardinality(Units("services"))
       /\ \A u \in Units("services") : workers[u].pc \notin {"blocked", "panicked"}
       /\ serviceDeployErrors.len = Cardinality(ServiceErrorsSent)
       /\ serviceDeployErrors.len <= serviceDeployErrors.cap
       /\ serviceDeployErrors.closed => WaitGroupDone("services")
       /\ (pc = Waiting("services") /\ WaitGroupDone("services"))
            => ENABLED DeployServicesReturn

\* Both workers of a services stage have sent their error and returned,
\* the channel is full and the join has closed it.
C39_Witness ==
  /\ config["services"] = 2
  /\ serviceDeployErrors = [len |-> 2, cap |-> 2, closed |-> TRUE]
  /\ \A u \in Units("services") : workers[u].pc = "done" /\ workers[u].status = "failed"
  /\ report["services"].logged
  /\ report["services"].failed = 2

\* Both watchers of a task group have sent their error and returned, the
\* channel is full and the join has closed it.
C39_WitnessTaskGroup ==
  /\ taskCall.pc = "returned"
  /\ taskCall.closed
  /\ taskCall.capacity = 2
  /\ taskCall.taskWatchErrors = 2
  /\ taskCall.watchers[1].err
  /\ taskCall.watchers[2].err
  /\ taskCall.status = "failed"


\* C40: no task group is ever skipped: the stage's skippedCount stays 0,
\* a task worker's outcome is succeeded or failed, and every report of a
\* pre- or post-deployment stage has skipped 0 and successful equal to
\* total minus failed.
C40_NoSkippedTasks ==
  /\ skippedCount = 0
  /\ \A u \in TaskUnits : workers[u].status \in {"pending", "succeeded", "failed"}
  /\ \A s \in TaskStages :
       report[s].logged =>
         /\ report[s].skipped = 0
         /\ report[s].successful = report[s].total - report[s].failed

\* The post-deployment stage has reported two task groups, one of them
\* failed.
C40_Witness ==
  /\ report["post"].logged
  /\ report["post"].total = 2
  /\ report["post"].failed = 1
  /\ report["post"].successful = 1
  /\ report["post"].skipped = 0

=============================================================================
